---- MODULE Spec2Model ----
(***************************************************************************)
(* Model of the Autopilot API Orchestrator: the orchestration loop         *)
(* (orchestrator.py), the Context Manager (context.py), the Cost Tracker   *)
(* (costs.py), the Checkpoint Store (checkpoint.py) and the command-line   *)
(* driver (main.py).                                                       *)
(*                                                                         *)
(* Units.  Token counts are in millions of tokens, so that a cost is       *)
(* tokens * price-per-million exactly (costs.py:195-197) and the default   *)
(* thresholds 10 / 25 / 50 USD keep their values.  Text is modelled by its *)
(* length in characters; the token estimate is length \div 4 as in         *)
(* context.py:67.                                                          *)
(*                                                                         *)
(* Specifications.  Spec: one process and one run().  SpecResume: runs     *)
(* that are killed, restarted and resumed, and the restarts of run_loop.   *)
(* SpecCost: one CostTracker under any calls.  SpecSumm: one conversation  *)
(* under summarization.  SpecSave: CheckpointManager.save step by step,    *)
(* with a crash possible at every step.                                    *)
(***************************************************************************)
EXTENDS Integers, Sequences, FiniteSets, TLC

VARIABLES
    pc,                \* position of the process: driver and run() loop
    continuous,        \* main.py --continuous
    config,            \* OrchestratorConfig
    context,           \* Orchestrator.context (ContextManager or NoContext)
    token_usage,       \* Orchestrator.token_usage (TokenUsage)
    cost_tracker,      \* Orchestrator.cost_tracker (CostTracker)
    task_description,  \* Orchestrator.task_description
    completed_tasks,   \* Orchestrator.completed_tasks
    is_complete,       \* Orchestrator.is_complete
    needs_human_input, \* Orchestrator.needs_human_input
    iterations,        \* local variable of run()
    disk,              \* files of <project>/.autopilot
    obs                \* observations: requests sent, callbacks fired, exits

vars == <<pc, continuous, config, context, token_usage, cost_tracker,
          task_description, completed_tasks, is_complete, needs_human_input,
          iterations, disk, obs>>

orchVars == <<context, token_usage, task_description, completed_tasks,
              is_complete, needs_human_input, iterations>>

----------------------------------------------------------------------------
(* Bounds of the model. *)

\* loop iterations of run() a configuration allows (execution.max_iterations)
MaxIter == 3
\* tool_use blocks in one model response
MaxBlocks == 2
\* process starts (the first one and restarts after an exit or a kill)
MaxProcs == 2
\* sessions of run_loop in one process (main.py: max_restarts is 100)
MaxSessions == 2
\* model requests over all processes in the resumption specification, and
\* calls on the tracker in the Cost Tracker specification
MaxCalls == 4
\* total cost up to which calls are accounted in the checkpoint-store
\* specification
CostCap == 25
\* messages added to a conversation in the summarization specification
MaxMsgs == 5
\* largest keep_recent in the summarization specification
MaxKeep == 2
\* completed saves in the checkpoint-store specification
MaxSaves == 2
\* messages added to the conversation in the checkpoint-store specification
MaxTalk == 2
\* start requests one project receives
MaxRuns == 2
\* callbacks waiting in the event loop
MaxPending == 2

----------------------------------------------------------------------------
(* Small helpers. *)

Range(s) == {s[i] : i \in 1..Len(s)}

RECURSIVE SumSeq(_)
SumSeq(s) == IF s = <<>> THEN 0 ELSE Head(s) + SumSeq(Tail(s))

Min(a, b) == IF a <= b THEN a ELSE b

\* s[:n] of Python for n >= 0
Take(s, n) == SubSeq(s, 1, Min(n, Len(s)))

\* s[n:] of Python for 0 <= n
Drop(s, n) == IF n >= Len(s) THEN <<>> ELSE SubSeq(s, n + 1, Len(s))

----------------------------------------------------------------------------
(* costs.py *)

Models == {"sonnet", "opus"}

DEFAULT_PRICING ==
    [sonnet |-> [input |-> 3, output |-> 15],
     opus   |-> [input |-> 5, output |-> 25]]

CostConfig == [warn |-> 10, alert |-> 25, max |-> 50]

\* CostTracker.__init__
NewCostTracker(onWarning, onAlert) ==
    [config |-> CostConfig,
     on_warning |-> onWarning,
     on_alert |-> onAlert,
     total_cost |-> 0,
     input_tokens |-> 0,
     output_tokens |-> 0,
     api_calls |-> 0,
     cost_by_model |-> [m \in {} |-> 0],
     tokens_by_model |-> [m \in {} |-> [input |-> 0, output |-> 0]],
     warning_acknowledged |-> FALSE,
     alert_acknowledged |-> FALSE]

\* CostTracker.calculate_cost
calculate_cost(model, input_tokens, output_tokens) ==
    input_tokens * DEFAULT_PRICING[model].input
        + output_tokens * DEFAULT_PRICING[model].output

\* A mutant of _check_thresholds: the latches are not consulted.
CheckThresholdsNoLatch(ct) ==
    [ct |-> [ct EXCEPT !.warning_acknowledged = @ \/ ct.total_cost >= ct.config.warn,
                       !.alert_acknowledged = @ \/ ct.total_cost >= ct.config.alert],
     warned |-> ct.total_cost >= ct.config.warn /\ ct.on_warning,
     alerted |-> ct.total_cost >= ct.config.alert /\ ct.on_alert]

\* CostTracker._check_thresholds: the tracker afterwards, and whether each
\* callback was invoked.
CheckThresholds(ct) ==
    LET w == ct.total_cost >= ct.config.warn /\ ~ct.warning_acknowledged
        a == ct.total_cost >= ct.config.alert /\ ~ct.alert_acknowledged
    IN  [ct |-> [ct EXCEPT !.warning_acknowledged = @ \/ w,
                           !.alert_acknowledged = @ \/ a],
         warned |-> w /\ ct.on_warning,
         alerted |-> a /\ ct.on_alert]

\* CostTracker.add_usage up to the threshold check
AddUsageTotals(ct, model, input_tokens, output_tokens) ==
    LET cost == calculate_cost(model, input_tokens, output_tokens)
        known == model \in DOMAIN ct.cost_by_model
        oldCost == IF known THEN ct.cost_by_model[model] ELSE 0
        oldTok == IF known THEN ct.tokens_by_model[model]
                  ELSE [input |-> 0, output |-> 0]
    IN  [ct EXCEPT
            !.total_cost = @ + cost,
            !.input_tokens = @ + input_tokens,
            !.output_tokens = @ + output_tokens,
            !.api_calls = @ + 1,
            !.cost_by_model =
                [m \in DOMAIN ct.cost_by_model \cup {model} |->
                    IF m = model THEN oldCost + cost ELSE ct.cost_by_model[m]],
            !.tokens_by_model =
                [m \in DOMAIN ct.tokens_by_model \cup {model} |->
                    IF m = model
                    THEN [input |-> oldTok.input + input_tokens,
                          output |-> oldTok.output + output_tokens]
                    ELSE ct.tokens_by_model[m]]]

\* CostTracker.add_usage
add_usage(ct, model, input_tokens, output_tokens) ==
    CheckThresholds(AddUsageTotals(ct, model, input_tokens, output_tokens))

\* CostTracker.reset_alerts (no caller in the program)
reset_alerts(ct) ==
    [ct EXCEPT !.warning_acknowledged = FALSE, !.alert_acknowledged = FALSE]

\* CostTracker.set_initial_cost
set_initial_cost(ct, cost) ==
    CheckThresholds([ct EXCEPT !.total_cost = cost])

\* A mutant of should_stop: the test is made on remaining_budget, which
\* max(0, ...) keeps from going below zero.
ShouldStopOnNegativeBudget(ct) ==
    (IF ct.config.max - ct.total_cost > 0 THEN ct.config.max - ct.total_cost ELSE 0) < 0

\* CostTracker.should_stop
should_stop(ct) == ct.total_cost >= ct.config.max

\* Callback observations: how often each callback ran, the total it was
\* given last, and whether a threshold evaluation has yet seen the total at
\* or above each threshold.
NoteThresholds(o, r) ==
    [o EXCEPT
        !.warnings = @ + (IF r.warned THEN 1 ELSE 0),
        !.alerts = @ + (IF r.alerted THEN 1 ELSE 0),
        !.warnedAt = IF r.warned THEN r.ct.total_cost ELSE @,
        !.alertedAt = IF r.alerted THEN r.ct.total_cost ELSE @,
        !.warnDue = @ \/ r.ct.total_cost >= r.ct.config.warn,
        !.alertDue = @ \/ r.ct.total_cost >= r.ct.config.alert]

----------------------------------------------------------------------------
(* context.py *)

NoContext == [none |-> TRUE]

\* TokenUsage()
NewTokenUsage ==
    [input_tokens |-> 0, output_tokens |-> 0,
     cache_read_tokens |-> 0, cache_creation_tokens |-> 0]

\* TokenUsage.add: the usage dict built by _call_api carries only
\* input_tokens and output_tokens; the cache counters get the default 0.
TokenUsageAdd(tu, usage) ==
    [tu EXCEPT !.input_tokens = @ + usage.input_tokens,
               !.output_tokens = @ + usage.output_tokens,
               !.cache_read_tokens = @ + 0,
               !.cache_creation_tokens = @ + 0]

\* TokenUsage.total
TokenUsageTotal(tu) == tu.input_tokens + tu.output_tokens

\* ContextManager.estimate_tokens, on the length of the text
estimate_tokens(chars) == IF chars = 0 THEN 0 ELSE chars \div 4

\* A message: its role, what it is (tag), the tool ids of its tool_use or
\* tool_result blocks in order, the length of each of its blocks (of the
\* text for a plain string), and the summary it quotes (summary envelope).
Message(role, tag, ids, blocks, summary) ==
    [role |-> role, tag |-> tag, ids |-> ids, blocks |-> blocks,
     summary |-> summary]

\* ContextManager.estimate_message_tokens: each block on its own
estimate_message_tokens(m) ==
    SumSeq([i \in 1..Len(m.blocks) |-> estimate_tokens(m.blocks[i])])

\* Length of the system prompt _build_system_prompt composes
\* (orchestrator.py:121-163), with no learnings file.
PromptTemplateChars == 676
ProjectDirChars == 9
TaskChars == 15
SummaryChars == 40
CompletedHeaderChars == 54

SystemPromptChars(sp) ==
    PromptTemplateChars + ProjectDirChars
        + (IF sp.task = "" THEN 0 ELSE TaskChars)
        + (IF sp.completed = <<>> THEN 0
           ELSE CompletedHeaderChars + Len(sp.completed) * (3 + SummaryChars))

\* ContextManager.update_token_estimate
update_token_estimate(ctx) ==
    [ctx EXCEPT !.estimated_tokens =
        estimate_tokens(SystemPromptChars(ctx.system_prompt))
            + SumSeq([i \in 1..Len(ctx.messages) |->
                        estimate_message_tokens(ctx.messages[i])])]

\* ContextManager(...): the thresholds are percentages
NewContext(system_prompt, messages, max_context_tokens, checkpoint_threshold, summary_threshold) ==
    [system_prompt |-> system_prompt,
     messages |-> messages,
     max_context_tokens |-> max_context_tokens,
     checkpoint_threshold |-> checkpoint_threshold,
     summary_threshold |-> summary_threshold,
     estimated_tokens |-> 0]

\* A mutant of the checkpoint test: the summary threshold is used.
should_checkpointAtSummary(ctx) ==
    ctx.estimated_tokens * 100 >= ctx.summary_threshold * ctx.max_context_tokens

\* ContextManager.should_checkpoint (context_usage >= checkpoint_threshold)
should_checkpoint(ctx) ==
    ctx.estimated_tokens * 100 >= ctx.checkpoint_threshold * ctx.max_context_tokens

\* ContextManager.should_summarize
should_summarize(ctx) ==
    ctx.estimated_tokens * 100 >= ctx.summary_threshold * ctx.max_context_tokens

\* ContextManager.add_user_message
BeginChars == 149
ContinueChars == 92
SummarizeChars == 150

add_user_message(ctx, tag, chars) ==
    update_token_estimate(
        [ctx EXCEPT !.messages =
            Append(@, Message("user", tag, <<>>, <<chars>>, ""))])

\* ContextManager.add_assistant_message: one block for the text (if any)
\* and one per tool_use
add_assistant_message(ctx, ids, blocks) ==
    update_token_estimate(
        [ctx EXCEPT !.messages =
            Append(@, Message("assistant", "assistant", ids, blocks, ""))])

\* ContextManager.add_tool_results: one user message for all the results
add_tool_results(ctx, results) ==
    update_token_estimate(
        [ctx EXCEPT !.messages =
            Append(@, Message("user", "tool_result",
                              [i \in 1..Len(results) |-> results[i].tool_use_id],
                              [i \in 1..Len(results) |-> results[i].chars],
                              ""))])

\* Length of the summary envelope of summarize_old_context (context.py:172)
EnvelopeChars == 85
Digits(n) == IF n < 10 THEN 1 ELSE IF n < 100 THEN 2 ELSE 3

\* A mutant of summarize_old_context: the cut is one message too early.
SummarizeKeepsOneMore(ctx, summary, keep_recent) ==
    IF Len(ctx.messages) <= keep_recent * 2 THEN ctx
    ELSE LET cutoff == Len(ctx.messages) - (keep_recent * 2) - 1
             old_messages == Take(ctx.messages, cutoff)
             recent_messages == Drop(ctx.messages, cutoff)
             summary_msg ==
                 Message("user", "summary", <<>>,
                         <<EnvelopeChars + Digits(Len(old_messages)) + SummaryChars>>,
                         summary)
         IN  update_token_estimate(
                 [ctx EXCEPT !.messages = <<summary_msg>> \o recent_messages])

\* A mutant of summarize_old_context: the early return is taken only below
\* keep_recent * 2 messages, not at it.
SummarizeStrictBound(ctx, summary, keep_recent) ==
    IF Len(ctx.messages) < keep_recent * 2 THEN ctx
    ELSE LET cutoff == Len(ctx.messages) - (keep_recent * 2)
             old_messages == Take(ctx.messages, cutoff)
             recent_messages == Drop(ctx.messages, cutoff)
             summary_msg ==
                 Message("user", "summary", <<>>,
                         <<EnvelopeChars + Digits(Len(old_messages)) + SummaryChars>>,
                         summary)
         IN  update_token_estimate(
                 [ctx EXCEPT !.messages = <<summary_msg>> \o recent_messages])

\* ContextManager.summarize_old_context
summarize_old_context(ctx, summary, keep_recent) ==
    IF Len(ctx.messages) <= keep_recent * 2 THEN ctx
    ELSE LET cutoff == Len(ctx.messages) - (keep_recent * 2)
             old_messages == Take(ctx.messages, cutoff)
             recent_messages == Drop(ctx.messages, cutoff)
             summary_msg ==
                 Message("user", "summary", <<>>,
                         <<EnvelopeChars + Digits(Len(old_messages)) + SummaryChars>>,
                         summary)
         IN  update_token_estimate(
                 [ctx EXCEPT !.messages = <<summary_msg>> \o recent_messages])

\* ContextManager.to_dict
ContextToDict(ctx) ==
    [system_prompt |-> ctx.system_prompt,
     messages |-> ctx.messages,
     estimated_tokens |-> ctx.estimated_tokens]

\* A mutant of from_dict: the saved estimate is kept, not recomputed.
FromDictKeepsEstimate(data, max_context_tokens) ==
    [NewContext(data.system_prompt, data.messages, max_context_tokens, 60, 80)
        EXCEPT !.estimated_tokens = data.estimated_tokens]

\* ContextManager.from_dict: the thresholds are not passed on and take the
\* dataclass defaults 0.6 and 0.8
ContextFromDict(data, max_context_tokens) ==
    update_token_estimate(
        [NewContext(data.system_prompt, data.messages, max_context_tokens, 60, 80)
            EXCEPT !.estimated_tokens = data.estimated_tokens])

----------------------------------------------------------------------------
(* tools.py: the tools the model can call *)

\* Text is a sequence of characters
Chars == {"a", "b"}

\* A place of the file system: nothing, a directory, a file, a symbolic link
Node(kind, text, target) == [kind |-> kind, text |-> text, target |-> target]
NoNode == Node("none", <<>>, <<>>)
DirNode == Node("dir", <<>>, <<>>)
FileNode(text) == Node("file", text, <<>>)
LinkNode(target) == Node("link", <<>>, target)

\* Tools.project_dir (tools.py:25), and a directory that is not under it
ProjectDir == <<"p">>
OutsideDir == <<"etc">>

\* The file system at the start: the project holds the file f and a link
\* "out" to the outside directory, which holds the file s
ProjectWith(text) ==
    (<<>> :> DirNode) @@ (ProjectDir :> DirNode)
        @@ (<<"p", "f">> :> FileNode(text))
        @@ (<<"p", "out">> :> LinkNode(OutsideDir))
        @@ (OutsideDir :> DirNode)
        @@ (<<"etc", "s">> :> FileNode(<<"b">>))

InitialProject == ProjectWith(<<"a", "a", "a">>)

NodeAt(fs, phys) == IF phys \in DOMAIN fs THEN fs[phys] ELSE NoNode

Parent(path) == IF path = <<>> THEN <<>> ELSE Take(path, Len(path) - 1)

\* Path.resolve(): the segments are walked from the root, ".." steps up and
\* a symbolic link is replaced by its target; a missing tail is kept
RECURSIVE ResolveFrom(_, _, _)
ResolveFrom(fs, cur, segs) ==
    IF segs = <<>> THEN cur
    ELSE LET c == Head(segs)
             cand == Append(cur, c)
             next == IF c = ".." THEN Parent(cur)
                     ELSE IF NodeAt(fs, cand).kind = "link"
                     THEN NodeAt(fs, cand).target
                     ELSE cand
         IN  ResolveFrom(fs, next, Tail(segs))

Resolve(fs, path) == ResolveFrom(fs, <<>>, path)

\* PurePath.relative_to succeeds: base is path or an ancestor of it
IsRelativeTo(path, base) ==
    Len(base) <= Len(path) /\ Take(path, Len(base)) = base

\* A path argument: absent, or absolute or relative segments
NoPath == [given |-> FALSE, abs |-> FALSE, segs |-> <<>>]
PathArg(abs, segs) == [given |-> TRUE, abs |-> abs, segs |-> segs]

\* The first lines of resolve_path (tools.py:253-256)
JoinProject(p) == IF p.abs THEN p.segs ELSE ProjectDir \o p.segs

\* A mutant of resolve_path: the path is compared as written, without
\* resolving ".." and symbolic links.
ResolvePathAsWritten(fs, p) ==
    [ok |-> IsRelativeTo(JoinProject(p), ProjectDir),
     path |-> JoinProject(p)]

\* Tools.resolve_path: ok is FALSE where the code raises ToolError
resolve_path(fs, p) ==
    [ok |-> IsRelativeTo(Resolve(fs, JoinProject(p)), Resolve(fs, ProjectDir)),
     path |-> JoinProject(p)]

\* What a tool method does: it returns (raised = "none") or raises
\* ToolError or another Exception; fs is the file system it leaves, touched
\* the places it opened or listed, spawned the subprocesses it started
Outcome(raised, msg, text, fs, touched, spawned) ==
    [raised |-> raised, msg |-> msg, text |-> text, fs |-> fs,
     touched |-> touched, spawned |-> spawned]
Returns(msg, text, fs, touched, spawned) ==
    Outcome("none", msg, text, fs, touched, spawned)
Raises(raised, msg, fs) == Outcome(raised, msg, <<>>, fs, {}, 0)
RaisesAfter(raised, msg, fs, touched) == Outcome(raised, msg, <<>>, fs, touched, 0)

\* Tools.tool_read_file
tool_read_file(fs, path) ==
    LET r == resolve_path(fs, path)
        phys == Resolve(fs, r.path)
    IN  IF ~r.ok THEN Raises("ToolError", "outside project directory", fs)
        ELSE IF NodeAt(fs, phys).kind = "none"
        THEN Raises("ToolError", "File not found", fs)
        ELSE IF NodeAt(fs, phys).kind # "file"
        THEN Raises("ToolError", "Not a file", fs)
        ELSE Returns("content", NodeAt(fs, phys).text, fs, {phys}, 0)

\* The proper ancestors of a place, the root excluded
Ancestors(phys) == {Take(phys, n) : n \in 1..(Len(phys) - 1)}

\* Path.mkdir(parents=True, exist_ok=True) on the parent of phys
MkdirParents(fs, phys) ==
    [q \in DOMAIN fs \cup Ancestors(phys) |->
        IF q \in Ancestors(phys) /\ NodeAt(fs, q).kind = "none"
        THEN DirNode ELSE NodeAt(fs, q)]

\* Path.write_text
WriteText(fs, phys, text) ==
    [q \in DOMAIN fs \cup {phys} |-> IF q = phys THEN FileNode(text) ELSE fs[q]]

\* Tools.tool_write_file: mkdir fails when an ancestor is a file (an OSError
\* that is not caught here), write_text when the place is a directory
tool_write_file(fs, path, content) ==
    LET r == resolve_path(fs, path)
        phys == Resolve(fs, r.path)
    IN  IF ~r.ok THEN Raises("ToolError", "outside project directory", fs)
        ELSE IF \E q \in Ancestors(phys) : NodeAt(fs, q).kind = "file"
        THEN Raises("Exception", "mkdir", fs)
        ELSE IF NodeAt(fs, phys).kind = "dir" \/ phys = <<>>
        THEN Raises("ToolError", "Cannot write file", MkdirParents(fs, phys))
        ELSE Returns("Successfully wrote", <<>>,
                     WriteText(MkdirParents(fs, phys), phys, content),
                     {phys}, 0)

\* old is found in s at position i (1-based)
MatchesAt(s, old, i) ==
    /\ i + Len(old) - 1 <= Len(s)
    /\ \A k \in 1..Len(old) : s[i + k - 1] = old[k]

\* The positions of s at which old is found
Occurrences(s, old) == {i \in 1..(Len(s) + 1) : MatchesAt(s, old, i)}

\* old in s
Contains(s, old) == Occurrences(s, old) # {}

\* str.count: the matches are counted from the left, a match starts after
\* the end of the one before (an empty old matches between all characters)
RECURSIVE CountFrom(_, _, _)
CountFrom(s, old, i) ==
    IF i > Len(s) + 1 THEN 0
    ELSE IF MatchesAt(s, old, i)
    THEN 1 + CountFrom(s, old, IF old = <<>> THEN i + 1 ELSE i + Len(old))
    ELSE CountFrom(s, old, i + 1)

StrCount(s, old) == CountFrom(s, old, 1)

\* str.replace(old, new, left): the first `left` matches from the left
RECURSIVE ReplaceFrom(_, _, _, _, _)
ReplaceFrom(s, old, new, i, left) ==
    LET here == IF i <= Len(s) THEN <<s[i]>> ELSE <<>>
    IN  IF i > Len(s) + 1 THEN <<>>
        ELSE IF left > 0 /\ MatchesAt(s, old, i)
        THEN IF old = <<>>
             THEN new \o here \o ReplaceFrom(s, old, new, i + 1, left - 1)
             ELSE new \o ReplaceFrom(s, old, new, i + Len(old), left - 1)
        ELSE here \o ReplaceFrom(s, old, new, i + 1, left)

StrReplace(s, old, new, left) == ReplaceFrom(s, old, new, 1, left)

\* Tools.tool_edit_file
tool_edit_file(fs, path, old_string, new_string, replace_all) ==
    LET r == resolve_path(fs, path)
        phys == Resolve(fs, r.path)
        content == NodeAt(fs, phys).text
    IN  IF ~r.ok THEN Raises("ToolError", "outside project directory", fs)
        ELSE IF NodeAt(fs, phys).kind = "none"
        THEN Raises("ToolError", "File not found", fs)
        ELSE IF NodeAt(fs, phys).kind # "file"
        THEN Raises("ToolError", "Cannot read file", fs)
        ELSE IF ~Contains(content, old_string)
        THEN RaisesAfter("ToolError", "String not found in file", fs, {phys})
        ELSE IF ~replace_all /\ StrCount(content, old_string) > 1
        THEN RaisesAfter("ToolError", "String appears more than once", fs, {phys})
        ELSE Returns("Replaced", <<>>,
                     WriteText(fs, phys,
                               StrReplace(content, old_string, new_string,
                                          IF replace_all THEN Len(content) + 1
                                          ELSE 1)),
                     {phys}, 0)

\* A shell command is the sequence of its whitespace-separated tokens
\* (command.split()); a token is a sequence of pieces, words and separators
\* written without a space between them ("ls;rm" is <<"ls", ";", "rm">>)
WordToken(w) == <<w>>

\* The separators tool_bash looks for in the first token (tools.py:385)
Separators == <<"|", "&&", "||", ";">>

\* separator in base_cmd: a substring test, so "|" is also found in "||"
SepAt(sep, tok, i) == tok[i] = sep \/ (sep = "|" /\ tok[i] = "||")
SepIn(sep, tok) == \E i \in 1..Len(tok) : SepAt(sep, tok, i)

\* The base command of tool_bash (tools.py:382-388): the first token, cut
\* at the first separator of the list that it contains
BaseCmd(parts) ==
    LET first == parts[1]
        found == {k \in 1..Len(Separators) : SepIn(Separators[k], first)}
    IN  IF found = {} THEN first
        ELSE LET k0 == CHOOSE k \in found : \A j \in found : k <= j
                 at == CHOOSE i \in 1..Len(first) :
                           /\ SepAt(Separators[k0], first, i)
                           /\ \A j \in 1..(i - 1) : ~SepAt(Separators[k0], first, j)
             IN  Take(first, at - 1)

\* The "bash" section of the tools configuration and the confirmation
\* callback of the Tools object ("none": on_confirm_request is not set)
BashConfig(allowed, blocked, confirm, on_confirm_request) ==
    [allowed |-> allowed, blocked |-> blocked, confirm |-> confirm,
     on_confirm_request |-> on_confirm_request]

DefaultBash == BashConfig(<<>>, <<>>, <<>>, "none")

InList(tok, list) == \E i \in 1..Len(list) : WordToken(list[i]) = tok

\* Tools.tool_bash; the files the command itself changes are not modelled
tool_bash(fs, bash, command) ==
    LET parts == command
        needs_confirm == \E i \in 1..Len(parts) : InList(parts[i], bash.confirm)
    IN  IF parts = <<>> THEN Raises("ToolError", "Empty command", fs)
        ELSE IF \E i \in 1..Len(parts) : InList(parts[i], bash.blocked)
        THEN Raises("ToolError", "blocked for security", fs)
        ELSE IF bash.allowed # <<>> /\ ~InList(BaseCmd(parts), bash.allowed)
        THEN Raises("ToolError", "not in allowed list", fs)
        ELSE IF needs_confirm /\ bash.on_confirm_request = "declines"
        THEN Raises("ToolError", "was not confirmed by user", fs)
        ELSE IF needs_confirm /\ bash.on_confirm_request = "none"
        THEN Raises("ToolError", "no confirmation handler is set", fs)
        ELSE Returns("output", <<>>, fs, {}, 1)

\* "resolve_path(path) if path else project_dir" of glob, grep and list_dir
SearchRoot(fs, path) ==
    IF path.given /\ (path.abs \/ path.segs # <<>>)
    THEN resolve_path(fs, path)
    ELSE [ok |-> TRUE, path |-> ProjectDir]

\* Tools.tool_glob
tool_glob(fs, path) ==
    LET r == SearchRoot(fs, path)
        phys == Resolve(fs, r.path)
    IN  IF ~r.ok THEN Raises("ToolError", "outside project directory", fs)
        ELSE IF NodeAt(fs, phys).kind # "dir"
        THEN Raises("ToolError", "Not a directory", fs)
        ELSE Returns("matches", <<>>, fs, {phys}, 0)

\* Tools.tool_grep
tool_grep(fs, path) ==
    LET r == SearchRoot(fs, path)
        phys == Resolve(fs, r.path)
    IN  IF ~r.ok THEN Raises("ToolError", "outside project directory", fs)
        ELSE Returns("matches", <<>>, fs, {phys}, 0)

\* Tools.tool_list_dir
tool_list_dir(fs, path) ==
    LET r == SearchRoot(fs, path)
        phys == Resolve(fs, r.path)
    IN  IF ~r.ok THEN Raises("ToolError", "outside project directory", fs)
        ELSE IF NodeAt(fs, phys).kind = "none"
        THEN Raises("ToolError", "Directory not found", fs)
        ELSE IF NodeAt(fs, phys).kind # "dir"
        THEN Raises("ToolError", "Not a directory", fs)
        ELSE Returns("entries", <<>>, fs, {phys}, 0)

\* Tools.tool_phase_complete without a verification: no commit is made
tool_phase_complete(fs) == Returns("Phase completed", <<>>, fs, {}, 0)

\* Tools.tool_task_complete
tool_task_complete(fs) == Returns("Task completed", <<>>, fs, {}, 0)

\* Tools.tool_request_help
tool_request_help(fs) == Returns("HELP REQUESTED", <<>>, fs, {}, 0)

\* A tool_use block: the tool's name and its input.  ok: the input has the
\* arguments the method takes (method(**tool_input) raises TypeError
\* otherwise).  answered: for request_help, the on_help_requested callback
\* is installed and returns a response.
Call(name, ok, path, content, old_string, new_string, replace_all, command, answered) ==
    [name |-> name, ok |-> ok, path |-> path, content |-> content,
     old_string |-> old_string, new_string |-> new_string,
     replace_all |-> replace_all, command |-> command, answered |-> answered]

ReadFile(path) == Call("read_file", TRUE, path, <<>>, <<>>, <<>>, FALSE, <<>>, FALSE)
WriteFile(path, content) == Call("write_file", TRUE, path, content, <<>>, <<>>, FALSE, <<>>, FALSE)
EditFile(path, old_string, new_string, replace_all) == Call("edit_file", TRUE, path, <<>>, old_string, new_string, replace_all, <<>>, FALSE)
Bash(command) == Call("bash", TRUE, NoPath, <<>>, <<>>, <<>>, FALSE, command, FALSE)
Search(name, path) == Call(name, TRUE, path, <<>>, <<>>, <<>>, FALSE, <<>>, FALSE)
Plain(name, ok, answered) == Call(name, ok, NoPath, <<>>, <<>>, <<>>, FALSE, <<>>, answered)

\* The names for which Tools has a tool_<name> method
ToolNames ==
    {"read_file", "write_file", "edit_file", "bash", "glob", "grep",
     "list_dir", "phase_complete", "task_complete", "request_help"}

\* method(**tool_input) of Tools.execute
ToolMethod(fs, bash, call) ==
    CASE call.name = "read_file" -> tool_read_file(fs, call.path)
      [] call.name = "write_file" -> tool_write_file(fs, call.path, call.content)
      [] call.name = "edit_file" ->
            tool_edit_file(fs, call.path, call.old_string, call.new_string,
                           call.replace_all)
      [] call.name = "bash" -> tool_bash(fs, bash, call.command)
      [] call.name = "glob" -> tool_glob(fs, call.path)
      [] call.name = "grep" -> tool_grep(fs, call.path)
      [] call.name = "list_dir" -> tool_list_dir(fs, call.path)
      [] call.name = "phase_complete" -> tool_phase_complete(fs)
      [] call.name = "task_complete" -> tool_task_complete(fs)
      [] call.name = "request_help" -> tool_request_help(fs)

\* What Tools.execute gives back, with what the call did
Executed(content, text, is_error, fs, touched, spawned) ==
    [content |-> content, text |-> text, is_error |-> is_error, fs |-> fs,
     touched |-> touched, spawned |-> spawned]

\* Tools.execute
execute(fs, bash, call) ==
    IF call.name \notin ToolNames
    THEN Executed("Unknown tool", <<>>, TRUE, fs, {}, 0)
    ELSE IF ~call.ok
    THEN Executed("Tool error", <<>>, TRUE, fs, {}, 0)
    ELSE LET out == ToolMethod(fs, bash, call)
         IN  CASE out.raised = "none" ->
                    Executed(out.msg, out.text, FALSE, out.fs, out.touched,
                             out.spawned)
               [] out.raised = "ToolError" ->
                    Executed(out.msg, <<>>, TRUE, out.fs, out.touched, 0)
               [] out.raised = "Exception" ->
                    Executed("Tool error", <<>>, TRUE, out.fs, out.touched, 0)

\* The tool calls of a turn: the tool_use blocks of the response (each an
\* id and a call), those kept by _execute_tools, the results so far, the
\* tool_result blocks put into the conversation, and what the tools did
\* (places opened or listed, subprocesses started)
ToolTurn(tool_uses, kept) ==
    [tool_uses |-> tool_uses, kept |-> kept, results |-> <<>>,
     reported |-> <<>>, touched |-> {}, spawned |-> 0]

NoToolTurn == ToolTurn(<<>>, <<>>)

----------------------------------------------------------------------------
(* checkpoint.py: the files of <project>/.autopilot *)

NoFile == [exists |-> FALSE]

\* A file holding (a prefix of) the JSON text of doc; whole is FALSE while
\* only part of the text has been written.
File(doc, whole) ==
    [exists |-> TRUE, doc |-> doc, whole |-> whole, decodable |-> TRUE]

\* A file whose bytes are not text in the encoding read_text() uses (the
\* locale's, UTF-8 as a rule)
Garbled == [exists |-> TRUE, doc |-> NoFile, whole |-> FALSE, decodable |-> FALSE]

\* The checkpoint dict of CheckpointManager.save
CheckpointDoc(ctx, tu, total_cost, task, completed) ==
    [version |-> 1,
     task_description |-> task,
     completed_tasks |-> completed,
     token_usage |-> [input_tokens |-> tu.input_tokens,
                      output_tokens |-> tu.output_tokens,
                      cache_read_tokens |-> tu.cache_read_tokens,
                      cache_creation_tokens |-> tu.cache_creation_tokens,
                      total |-> TokenUsageTotal(tu)],
     total_cost |-> total_cost,
     context |-> ContextToDict(ctx)]

\* The history entry of CheckpointManager.save
HistoryEntry(doc) ==
    [action |-> "checkpoint",
     tasks_completed |-> Len(doc.completed_tasks),
     cost |-> doc.total_cost,
     tokens |-> doc.token_usage.total]

EmptyDisk ==
    [checkpoint |-> NoFile, tmp |-> NoFile, history |-> <<>>, completed |-> 0,
     project |-> InitialProject]

\* A mutant of the write: the text goes straight into checkpoint.json.
WriteOpenInPlace(d, doc) == [d EXCEPT !.checkpoint = File(doc, FALSE)]

\* temp_file.write_text(...), first part: checkpoint.tmp is created or
\* truncated and part of the text is in it
WriteOpen(d, doc) == [d EXCEPT !.tmp = File(doc, FALSE)]

\* temp_file.write_text(...), the rest: the whole text is in checkpoint.tmp
WriteRest(d, doc) == [d EXCEPT !.tmp = File(doc, TRUE)]

\* temp_file.rename(checkpoint_file)
RenameTmp(d) == [d EXCEPT !.checkpoint = d.tmp, !.tmp = NoFile]

\* A mutant of the append: history.jsonl is opened for writing ("w").
AppendHistoryRewritten(d, doc) == [d EXCEPT !.history = <<HistoryEntry(doc)>>]

\* the append to history.jsonl
AppendHistory(d, doc) == [d EXCEPT !.history = Append(@, HistoryEntry(doc))]

\* CheckpointManager.save, start to end
CheckpointSave(d, doc) ==
    AppendHistory(RenameTmp(WriteRest(WriteOpen(d, doc), doc)), doc)

\* json.loads of a file: a partial or empty text does not parse
ValidJson(f) == f # NoFile /\ f.whole

\* CheckpointManager.load: the document, or NoFile for None
CheckpointLoad(d) ==
    IF d.checkpoint = NoFile THEN NoFile
    ELSE IF ValidJson(d.checkpoint) THEN d.checkpoint.doc
    ELSE NoFile

\* checkpoint_file.read_text() of CheckpointManager.load can raise
\* UnicodeDecodeError, a ValueError that load's except clause
\* (json.JSONDecodeError, IOError) does not name
LoadCanRaise(d) == d.checkpoint # NoFile /\ ~d.checkpoint.decodable

\* CheckpointManager.clear
CheckpointClear(d) ==
    IF d.checkpoint # NoFile
    THEN [d EXCEPT !.checkpoint = NoFile, !.completed = @ + 1]
    ELSE d

----------------------------------------------------------------------------
(* orchestrator.py *)

Tasks == {"task"}
Summaries == {"done"}

\* Sizes of what the model and the tools return, in characters: the text
\* block of a response, the serialized input of a tool_use block, the
\* content of a tool result.
Sizes == [text |-> 200, input |-> 40, result |-> 80]

\* Usage counters of one model response, in millions of tokens
Usages == {[input_tokens |-> 2, output_tokens |-> 1],
           [input_tokens |-> 3, output_tokens |-> 3]}

\* What a tool_use block asks for.  answered: a request_help whose
\* on_help_requested callback is installed and returns a response.
ToolUse(name, answered) == [name |-> name, answered |-> answered]

ToolUses ==
    {ToolUse("bash", FALSE), ToolUse("task_complete", FALSE),
     ToolUse("request_help", TRUE), ToolUse("request_help", FALSE)}

RECURSIVE SeqsUpTo(_, _)
SeqsUpTo(S, n) ==
    IF n = 0 THEN {<<>>}
    ELSE LET shorter == SeqsUpTo(S, n - 1)
         IN  shorter \cup {Append(q, x) : q \in shorter, x \in S}

\* OrchestratorConfig: the execution and context settings of a run
Configs ==
    [model : {"sonnet"},
     max_context_tokens : {400, 150000},
     checkpoint_threshold : {60},
     summary_threshold : {80},
     max_iterations : {MaxIter},
     max_tool_calls_per_turn : {1, MaxBlocks},
     bash : {DefaultBash}]

\* Orchestrator._build_system_prompt
BuildSystemPrompt(task, completed) == [task |-> task, completed |-> completed]

\* The state save_checkpoint hands to CheckpointManager.save
CurrentDoc ==
    CheckpointDoc(context, token_usage, cost_tracker.total_cost,
                  task_description, completed_tasks)

\* A mutant of save_checkpoint: the total cost is not handed on.
save_checkpointWithoutCost(d, doc) ==
    CheckpointSave(d, [doc EXCEPT !.total_cost = 0])

\* Orchestrator.save_checkpoint: the files afterwards
save_checkpoint(d, doc) == CheckpointSave(d, doc)

\* What a save is observed to be: its reason, and how many phases had been
\* completed when it was made
NoteSave(o, reason) ==
    [o EXCEPT !.reason = reason, !.phasesSaved = o.phases, !.saves = @ + 1]

\* A mutant of the restore: a fresh TokenUsage instead of the saved one.
RestoreTokenUsageFresh(doc) == NewTokenUsage

\* CheckpointManager.restore_context: the TokenUsage rebuilt from the file
RestoreTokenUsage(doc) ==
    [input_tokens |-> doc.token_usage.input_tokens,
     output_tokens |-> doc.token_usage.output_tokens,
     cache_read_tokens |-> doc.token_usage.cache_read_tokens,
     cache_creation_tokens |-> doc.token_usage.cache_creation_tokens]

\* CheckpointManager.restore_context on a loadable checkpoint: the context,
\* token usage, total cost and checkpoint data it returns
restore_context(d, max_context_tokens) ==
    LET checkpoint == CheckpointLoad(d)
    IN  [context |-> ContextFromDict(checkpoint.context, max_context_tokens),
         token_usage |-> RestoreTokenUsage(checkpoint),
         total_cost |-> checkpoint.total_cost,
         checkpoint_data |-> checkpoint]

\* Orchestrator.resume with a checkpoint: restore, then rebuild the system
\* prompt (the estimate is not recomputed after that)
Resume(doc) ==
    LET restored == ContextFromDict(doc.context, config.max_context_tokens)
        r == set_initial_cost(cost_tracker, doc.total_cost)
    IN  /\ token_usage' = RestoreTokenUsage(doc)
        /\ cost_tracker' = r.ct
        /\ task_description' = doc.task_description
        /\ completed_tasks' = doc.completed_tasks
        /\ context' = [restored EXCEPT !.system_prompt =
                          BuildSystemPrompt(doc.task_description, doc.completed_tasks)]
        /\ obs' = [NoteThresholds(obs, r) EXCEPT !.resumed = TRUE,
                                                  !.loads = @ + 1, !.load = "loaded",
                                                  !.turn = FALSE, !.help = "none", !.helps = 0, !.failed = NoContext,
                                                  !.sessions = IF pc = "returned" THEN @ + 1 ELSE @]

\* A mutant of _call_api: the Token Usage counters are left alone.
CallApiTokensDropped(usage) == token_usage

\* Orchestrator._call_api after the response has arrived: usage accounting
CallApiTokens(usage) == TokenUsageAdd(token_usage, usage)

CallApiCost(usage) ==
    add_usage(cost_tracker, config.model, usage.input_tokens, usage.output_tokens)

\* What a sent request is observed to be: its kind, the total cost at the
\* moment it is sent, and what it follows in the loop body ("gate": the
\* budget gate of the same iteration, "summary": a summarization response)
Request(kind, total_cost, after) ==
    [kind |-> kind, cost |-> total_cost, after |-> after]

NoteRequest(o, kind, total_cost, after) ==
    [o EXCEPT !.lastReq = Request(kind, total_cost, after),
              !.requests = @ + 1,
              !.mainOver = IF kind = "main" /\ total_cost >= cost_tracker.config.max
                           THEN @ + 1 ELSE @]

\* A mutant of the tool loop: task_complete records its summary but the
\* completion flag is left alone.
ToolStepLeavesFlag(st, u, id) ==
    LET help == u.name = "request_help"
        done == u.name = "task_complete"
    IN  [is_complete |-> st.is_complete,
         completed_tasks |-> IF done THEN Append(st.completed_tasks, "done")
                             ELSE st.completed_tasks,
         needs_human_input |-> IF help THEN ~u.answered ELSE st.needs_human_input,
         results |-> Append(st.results,
                            [tool_use_id |-> id, chars |-> Sizes.result]),
         executed |-> Append(st.executed, u.name)]

\* One pass of the for loop of _execute_tools (orchestrator.py:257-289)
ToolStep(st, u, id) ==
    LET help == u.name = "request_help"
        done == u.name = "task_complete"
    IN  [is_complete |-> st.is_complete \/ done,
         completed_tasks |-> IF done THEN Append(st.completed_tasks, "done")
                             ELSE st.completed_tasks,
         needs_human_input |-> IF help THEN ~u.answered ELSE st.needs_human_input,
         results |-> Append(st.results,
                            [tool_use_id |-> id, chars |-> Sizes.result]),
         executed |-> Append(st.executed, u.name)]

RECURSIVE ToolLoop(_, _, _)
ToolLoop(st, uses, ids) ==
    IF uses = <<>> THEN st
    ELSE ToolLoop(ToolStep(st, Head(uses), Head(ids)), Tail(uses), Tail(ids))

\* A mutant of the truncation: the last max_tools blocks are kept.
KeptToolUsesFromTail(tool_uses, max_tools) ==
    IF Len(tool_uses) > max_tools
    THEN Drop(tool_uses, Len(tool_uses) - max_tools) ELSE tool_uses

\* The truncation of _execute_tools: tool_uses[:max_tools]
KeptToolUses(tool_uses, max_tools) ==
    IF Len(tool_uses) > max_tools THEN Take(tool_uses, max_tools) ELSE tool_uses

\* Orchestrator._execute_tools
ExecuteTools(tool_uses, ids) ==
    LET max_tools == config.max_tool_calls_per_turn
        kept == KeptToolUses(tool_uses, max_tools)
        st == ToolLoop([is_complete |-> is_complete,
                        completed_tasks |-> completed_tasks,
                        needs_human_input |-> needs_human_input,
                        results |-> <<>>,
                        executed |-> <<>>],
                       kept, Take(ids, Len(kept)))
    IN  [is_complete |-> st.is_complete,
         completed_tasks |-> st.completed_tasks,
         needs_human_input |-> st.needs_human_input,
         results |-> st.results,
         executed |-> st.executed,
         kept |-> kept]

\* What became of the help requests among the executed tools of a turn:
\* "unanswered" if some request_help got no response from the callback (or
\* there is no callback), "answered" if all got one, "none" without any
HelpOutcome(kept) ==
    IF \E i \in 1..Len(kept) : kept[i] = ToolUse("request_help", FALSE)
    THEN "unanswered"
    ELSE IF \E i \in 1..Len(kept) : kept[i] = ToolUse("request_help", TRUE)
    THEN "answered"
    ELSE "none"

----------------------------------------------------------------------------
(* The dashboard's registry of runs: server.py, one project *)

Runs == 1..MaxRuns
NoRun == 0

\* A callback in the event loop's FIFO of ready callbacks: a request
\* handler about to enter its endpoint function, or the next step of the
\* task run_orchestrator of run r
Handler(kind) == [kind |-> kind, run |-> NoRun]
TaskStep(r) == [kind |-> "step", run |-> r]

\* projects, active_orchestrators and active_tasks (server.py:49-51) for
\* one project id, the tasks and worker threads of its runs, and the event
\* loop's ready callbacks.  A task is created (first step scheduled),
\* suspended in the broadcast of line 368, suspended on run_in_executor
\* (line 376), or done; cancel[r] is a cancellation requested and not yet
\* delivered
ServerInit ==
    [exists |-> TRUE, status |-> "idle",
     active_tasks |-> NoRun, active_orchestrators |-> NoRun,
     task |-> [r \in 1..MaxRuns |-> "none"],
     cancel |-> [r \in 1..MaxRuns |-> FALSE],
     worker |-> [r \in 1..MaxRuns |-> "none"],
     ready |-> <<>>, asked |-> 0, runs |-> 0, refused |-> FALSE]

HasStep(s, r) == \E i \in 1..Len(s.ready) : s.ready[i] = TaskStep(r)

\* Task.cancel(): nothing for a task that is done; a task waiting on a
\* future is woken with CancelledError, a task whose step is already
\* scheduled gets the error at that step
cancel(s, r) ==
    IF s.task[r] \in {"none", "done"}
    THEN s
    ELSE [s EXCEPT !.cancel[r] = TRUE,
                   !.ready = IF HasStep(s, r) THEN @ ELSE Append(@, TaskStep(r))]

\* start_project (server.py:263-412): refused for a project whose status is
\* "running"; otherwise a new Orchestrator is registered, the task is
\* created and registered.  The endpoint has no await: it runs in one step
start_project(s) ==
    IF ~s.exists \/ s.status = "running"
    THEN s
    ELSE LET r == s.runs + 1
         IN  [s EXCEPT !.runs = r,
                       !.active_orchestrators = r,
                       !.task[r] = "created",
                       !.ready = Append(@, TaskStep(r)),
                       !.active_tasks = r]

\* stop_project (server.py:415-429): 400 unless the project has an entry
\* in active_tasks; that task is cancelled and the status set to paused
stop_project(s) ==
    IF ~s.exists
    THEN s
    ELSE IF s.active_tasks = NoRun
         THEN [s EXCEPT !.refused = TRUE]
         ELSE [cancel(s, s.active_tasks) EXCEPT !.status = "paused"]

\* delete_project (server.py:246-260)
delete_project(s) ==
    IF ~s.exists
    THEN s
    ELSE [(IF s.active_tasks = NoRun THEN s ELSE cancel(s, s.active_tasks))
            EXCEPT !.active_tasks = NoRun,
                   !.active_orchestrators = NoRun,
                   !.exists = FALSE]

\* The finally block of run_orchestrator (server.py:397-407): the entries
\* of the project id are deleted, whichever run they belong to
Cleanup(s, r) ==
    [s EXCEPT !.active_tasks = NoRun,
              !.active_orchestrators = NoRun,
              !.task[r] = "done",
              !.cancel[r] = FALSE]

\* One step of the task run_orchestrator of run r (server.py:365-407).
\* suspends: the broadcast of line 368 waits for a websocket; status: the
\* status the end of run() leaves (completed, paused, error)
run_orchestrator(s, r, suspends, status) ==
    IF s.task[r] = "created" /\ s.cancel[r]
    THEN \* cancelled before its first step: the body is never entered
         [s EXCEPT !.task[r] = "done", !.cancel[r] = FALSE]
    ELSE IF s.task[r] = "created" /\ suspends
    THEN [s EXCEPT !.status = "running", !.task[r] = "broadcast"]
    ELSE IF s.task[r] = "created"
    THEN [s EXCEPT !.status = "running", !.task[r] = "executor",
                   !.worker[r] = "running"]
    ELSE IF s.cancel[r]
    THEN \* except asyncio.CancelledError (server.py:387-389), then finally
         Cleanup([s EXCEPT !.status = "paused"], r)
    ELSE IF s.task[r] = "broadcast"
    THEN [s EXCEPT !.task[r] = "executor", !.worker[r] = "running"]
    ELSE \* run() has ended (server.py:378-396), then finally
         Cleanup([s EXCEPT !.status = status], r)

Pop(s) == [s EXCEPT !.ready = Tail(@)]

ServerStep(s) ==
    /\ obs' = [obs EXCEPT !.server = s]
    /\ UNCHANGED <<pc, continuous, config, cost_tracker, disk>>
    /\ UNCHANGED orchVars

\* A request reaches the server: its handler is scheduled
StartRequest ==
    /\ Len(obs.server.ready) < MaxPending
    /\ obs.server.asked < MaxRuns
    /\ ServerStep([obs.server EXCEPT !.ready = Append(@, Handler("start")),
                                     !.asked = @ + 1])

StopRequest ==
    /\ Len(obs.server.ready) < MaxPending
    /\ ServerStep([obs.server EXCEPT !.ready = Append(@, Handler("stop"))])

DeleteRequest ==
    /\ Len(obs.server.ready) < MaxPending
    /\ obs.server.exists
    /\ ServerStep([obs.server EXCEPT !.ready = Append(@, Handler("delete"))])

\* The event loop runs its first ready callback
HandleStart ==
    /\ obs.server.ready # <<>>
    /\ Head(obs.server.ready) = Handler("start")
    /\ ServerStep(start_project(Pop(obs.server)))

HandleStop ==
    /\ obs.server.ready # <<>>
    /\ Head(obs.server.ready) = Handler("stop")
    /\ ServerStep(stop_project(Pop(obs.server)))

HandleDelete ==
    /\ obs.server.ready # <<>>
    /\ Head(obs.server.ready) = Handler("delete")
    /\ ServerStep(delete_project(Pop(obs.server)))

RunOrchestratorStep ==
    /\ obs.server.ready # <<>>
    /\ Head(obs.server.ready).kind = "step"
    /\ \E suspends \in BOOLEAN, status \in {"completed", "paused", "error"} :
          ServerStep(run_orchestrator(Pop(obs.server),
                                      Head(obs.server.ready).run,
                                      suspends, status))

\* The websocket send of the broadcast completes: the task is woken
BroadcastSent ==
    \E r \in Runs :
       /\ obs.server.task[r] = "broadcast"
       /\ ~obs.server.cancel[r]
       /\ ~HasStep(obs.server, r)
       /\ ServerStep([obs.server EXCEPT !.ready = Append(@, TaskStep(r))])

\* Orchestrator.run ends in its worker thread; the task is woken unless
\* its wait was cancelled (server.py:375-376)
WorkerEnds ==
    \E r \in Runs :
       /\ obs.server.worker[r] = "running"
       /\ ServerStep([obs.server EXCEPT
              !.worker[r] = "ended",
              !.ready = IF obs.server.task[r] = "executor" /\ ~obs.server.cancel[r]
                        THEN Append(@, TaskStep(r)) ELSE @])

NextRegistry ==
    \/ StartRequest
    \/ StopRequest
    \/ DeleteRequest
    \/ HandleStart
    \/ HandleStop
    \/ HandleDelete
    \/ RunOrchestratorStep
    \/ BroadcastSent
    \/ WorkerEnds

----------------------------------------------------------------------------
(* The process: main.py around Orchestrator.run *)

ObsInit ==
    [warnings |-> 0, alerts |-> 0, warnedAt |-> 0, alertedAt |-> 0,
     warnDue |-> FALSE, alertDue |-> FALSE,
     before |-> <<>>, keep |-> 0, summary |-> "",
     prev |-> NoFile, intended |-> NoFile, steps |-> 0, ops |-> <<>>,
     lastReq |-> Request("none", 0, "none"), requests |-> 0, mainOver |-> 0,
     executed |-> 0, turn |-> FALSE, help |-> "none", nextId |-> 1,
     failed |-> NoContext, tools |-> NoToolTurn, loads |-> 0, load |-> "none",
     cancelled |-> FALSE, stop |-> "none", saves |-> 0, helps |-> 0,
     result |-> "none", exit |-> "none", reason |-> "none",
     phases |-> 0, phasesSaved |-> 0, resumed |-> FALSE,
     procs |-> 1, sessions |-> 1, server |-> ServerInit]

\* The process ends: its memory is gone, the files stay
ProcessEnds ==
    /\ pc' = "exit"
    /\ cost_tracker' = NewCostTracker(TRUE, TRUE)
    /\ context' = NoContext
    /\ token_usage' = NewTokenUsage
    /\ task_description' = ""
    /\ completed_tasks' = <<>>
    /\ is_complete' = FALSE
    /\ needs_human_input' = FALSE
    /\ iterations' = 0

\* Orchestrator.__init__: the in-memory state of a new orchestrator
NewOrchestrator ==
    /\ context = NoContext
    /\ token_usage = NewTokenUsage
    /\ task_description = ""
    /\ completed_tasks = <<>>
    /\ is_complete = FALSE
    /\ needs_human_input = FALSE
    /\ iterations = 0

Init ==
    /\ pc = "main"
    /\ continuous \in BOOLEAN
    /\ config \in Configs
    /\ cost_tracker = NewCostTracker(TRUE, TRUE)
    /\ NewOrchestrator
    /\ disk = EmptyDisk
    /\ obs = ObsInit

\* main.py:292-293, Orchestrator.initialize
Initialize ==
    /\ pc = "main"
    /\ \E task \in Tasks :
        /\ task_description' = task
        /\ context' = NewContext(BuildSystemPrompt(task, completed_tasks), <<>>,
                                 config.max_context_tokens,
                                 config.checkpoint_threshold,
                                 config.summary_threshold)
    /\ completed_tasks' = <<>>
    /\ is_complete' = FALSE
    /\ pc' = "run"
    /\ UNCHANGED <<continuous, config, token_usage, cost_tracker,
                   needs_human_input, iterations, disk, obs>>

\* main.py:288-291 with a checkpoint on disk, Orchestrator.resume
ResumeAtStart ==
    /\ pc = "main"
    /\ CheckpointLoad(disk) # NoFile
    /\ Resume(CheckpointLoad(disk))
    /\ pc' = "run"
    /\ UNCHANGED <<continuous, config, is_complete, needs_human_input,
                   iterations, disk>>

\* main.py:288-291 without one: resume() returns False, the process exits
ResumeFails ==
    /\ pc = "main"
    /\ CheckpointLoad(disk) = NoFile
    /\ ProcessEnds
    /\ UNCHANGED <<continuous, config, disk, obs>>

\* Orchestrator.run up to the loop (orchestrator.py:325-334)
RunBegin ==
    /\ pc = "run"
    /\ iterations' = 0
    /\ context' = add_user_message(context, "begin", BeginChars)
    /\ pc' = "loop"
    /\ obs' = [obs EXCEPT !.result = "none", !.exit = "none", !.turn = FALSE, !.help = "none", !.helps = 0, !.failed = NoContext,
                          !.mainOver = 0]
    /\ UNCHANGED <<continuous, config, token_usage, cost_tracker,
                   task_description, completed_tasks, is_complete,
                   needs_human_input, disk>>

\* A mutant of the loop condition: one iteration more.
LoopConditionInclusive(i, max_iterations) == i <= max_iterations

\* The condition of the while loop of run() (orchestrator.py:336)
LoopCondition(i, max_iterations) == i < max_iterations

\* The loop condition fails (orchestrator.py:336, 405-408)
MaxIterations ==
    /\ pc = "loop"
    /\ ~LoopCondition(iterations, config.max_iterations)
    /\ disk' = save_checkpoint(disk, CurrentDoc)
    /\ obs' = [NoteSave(obs, "max_iterations") EXCEPT
                  !.result = "not_complete", !.exit = "max_iterations"]
    /\ pc' = "returned"
    /\ UNCHANGED <<continuous, config, cost_tracker>>
    /\ UNCHANGED orchVars

\* The hard budget gate (orchestrator.py:337-343)
CostGate ==
    /\ pc = "loop"
    /\ LoopCondition(iterations, config.max_iterations)
    /\ should_stop(cost_tracker)
    /\ iterations' = iterations + 1
    /\ disk' = save_checkpoint(disk, CurrentDoc)
    /\ obs' = [NoteSave(obs, "cost_limit") EXCEPT
                  !.result = "not_complete", !.exit = "cost_limit"]
    /\ pc' = "returned"
    /\ UNCHANGED <<continuous, config, cost_tracker, context, token_usage,
                   task_description, completed_tasks, is_complete,
                   needs_human_input>>

\* A turn begins: _handle_context_pressure up to its model request, or, with
\* no summary needed, up to the main request (orchestrator.py:337-350,
\* 293-306)
TurnBeginIf(allowed) ==
    /\ allowed
    /\ pc = "loop"
    /\ LoopCondition(iterations, config.max_iterations)
    /\ ~should_stop(cost_tracker)
    /\ iterations' = iterations + 1
    /\ LET saved == should_checkpoint(context)
           o0 == [obs EXCEPT !.failed = NoContext]
           o1 == IF saved THEN NoteSave(o0, "context_threshold") ELSE o0
       IN  /\ disk' = IF saved THEN save_checkpoint(disk, CurrentDoc) ELSE disk
           /\ IF should_summarize(context)
              THEN /\ context' = add_user_message(context, "summarize", SummarizeChars)
                   /\ obs' = NoteRequest(o1, "summary", cost_tracker.total_cost, "gate")
                   /\ pc' = "await_summary"
              ELSE /\ context' = context
                   /\ obs' = NoteRequest(o1, "main", cost_tracker.total_cost, "gate")
                   /\ pc' = "await_response"
    /\ UNCHANGED <<continuous, config, cost_tracker, token_usage,
                   task_description, completed_tasks, is_complete,
                   needs_human_input>>

TurnBegin == TurnBeginIf(TRUE)

\* A mutant of the compression: keep_recent is left at its default 10.
ApplySummaryKeepsTen(ctx, text) ==
    IF text THEN summarize_old_context(ctx, "summary", 10) ELSE ctx

\* What _handle_context_pressure does with the response: the first text
\* block, if there is one and it is not empty, replaces all but the last
\* 12 messages (orchestrator.py:308-317)
ApplySummary(ctx, text) ==
    IF text THEN summarize_old_context(ctx, "summary", 6) ELSE ctx

\* The summarization request returns; the summary is applied and the main
\* request is sent (orchestrator.py:306-317, 348-350)
SummaryResponseOf(usages) ==
    /\ pc = "await_summary"
    /\ \E usage \in usages, text \in BOOLEAN :
        LET r == CallApiCost(usage)
        IN  /\ token_usage' = CallApiTokens(usage)
            /\ cost_tracker' = r.ct
            /\ context' = ApplySummary(context, text)
            /\ obs' = NoteRequest([NoteThresholds(obs, r) EXCEPT
                                       !.summary = IF text THEN "summary" ELSE ""],
                                  "main", r.ct.total_cost, "summary")
    /\ pc' = "await_response"
    /\ UNCHANGED <<continuous, config, task_description, completed_tasks,
                   is_complete, needs_human_input, iterations, disk>>

SummaryResponse == SummaryResponseOf(Usages)

\* The summarization request fails: _handle_context_pressure has no handler,
\* the APIError leaves run()
SummaryError ==
    /\ pc = "await_summary"
    /\ pc' = "raised"
    /\ obs' = [obs EXCEPT !.result = "raised", !.exit = "api_error"]
    /\ UNCHANGED <<continuous, config, cost_tracker, disk>>
    /\ UNCHANGED orchVars

\* The main request fails: cooldown, continue (orchestrator.py:351-354)
MainError ==
    /\ pc = "await_response"
    /\ pc' = "loop"
    /\ obs' = [obs EXCEPT !.failed = [messages |-> context.messages]]
    /\ UNCHANGED <<continuous, config, cost_tracker, disk>>
    /\ UNCHANGED orchVars

\* How many entries of the sequence names are name
RECURSIVE Count(_, _)
Count(names, name) ==
    IF names = <<>> THEN 0
    ELSE (IF Head(names) = name THEN 1 ELSE 0) + Count(Tail(names), name)

\* A mutant of the end of a turn without tools: nothing is asked.
AskNothing(ctx) == ctx

\* The end of a turn without tools and without completion: the model is
\* asked whether it has finished (orchestrator.py:381-387)
AskIfFinished(ctx) == add_user_message(ctx, "continue", ContinueChars)

\* The main request returns: the rest of the loop body
\* (orchestrator.py:350, 356-403)
MainResponseOf(usages, responses, countPhases) ==
    /\ pc = "await_response"
    /\ \E usage \in usages, tool_uses \in responses,
          stop_reason \in {"end_turn", "max_tokens", "tool_use"} :
        /\ (stop_reason = "tool_use") <=> (tool_uses # <<>>)
        /\ LET r == CallApiCost(usage)
               n == Len(tool_uses)
               ids == [i \in 1..n |-> obs.nextId + i - 1]
               blocks == <<Sizes.text>> \o [i \in 1..n |-> Sizes.input]
               ctx1 == add_assistant_message(context, ids, blocks)
               o1 == [NoteThresholds(obs, r) EXCEPT !.nextId = @ + n,
                                                    !.turn = FALSE,
                                                    !.help = "none", !.helps = 0,
                                                    !.stop = stop_reason]
               tu1 == CallApiTokens(usage)
           IN  /\ token_usage' = tu1
               /\ cost_tracker' = r.ct
               /\ IF stop_reason = "end_turn" /\ n = 0
                  THEN IF is_complete
                       THEN /\ context' = ctx1
                            /\ disk' = CheckpointClear(disk)
                            /\ obs' = [o1 EXCEPT !.result = "complete",
                                                 !.exit = "end_turn"]
                            /\ pc' = "returned"
                            /\ UNCHANGED <<completed_tasks, is_complete,
                                           needs_human_input>>
                       ELSE /\ context' = AskIfFinished(ctx1)
                            /\ obs' = o1
                            /\ pc' = "loop"
                            /\ UNCHANGED <<completed_tasks, is_complete,
                                           needs_human_input, disk>>
                  ELSE IF n > 0
                  THEN LET ex == ExecuteTools(tool_uses, ids)
                           ctx2 == add_tool_results(ctx1, ex.results)
                           o2 == [o1 EXCEPT
                                     !.turn = "task_complete" \in Range(ex.executed),
                                     !.help = HelpOutcome(ex.kept),
                                     !.helps = Count(ex.executed, "request_help"),
                                     !.executed = @ + Len(ex.executed),
                                     !.phases = IF countPhases
                                                THEN @ + Count(ex.executed, "phase_complete")
                                                ELSE @]
                       IN  /\ context' = ctx2
                           /\ is_complete' = ex.is_complete
                           /\ completed_tasks' = ex.completed_tasks
                           /\ needs_human_input' = ex.needs_human_input
                           /\ IF ex.is_complete
                              THEN /\ disk' = CheckpointClear(disk)
                                   /\ obs' = [o2 EXCEPT !.result = "complete",
                                                        !.exit = "task_complete"]
                                   /\ pc' = "returned"
                              ELSE IF ex.needs_human_input
                              THEN /\ disk' = save_checkpoint(disk,
                                        CheckpointDoc(ctx2, tu1, r.ct.total_cost,
                                                      task_description,
                                                      ex.completed_tasks))
                                   /\ obs' = [NoteSave(o2, "human_input_needed")
                                                EXCEPT !.result = "not_complete",
                                                       !.exit = "human_input_needed"]
                                   /\ pc' = "returned"
                              ELSE /\ disk' = disk
                                   /\ obs' = o2
                                   /\ pc' = "loop"
                  ELSE /\ context' = ctx1
                       /\ obs' = o1
                       /\ pc' = "loop"
                       /\ UNCHANGED <<completed_tasks, is_complete,
                                      needs_human_input, disk>>
    /\ UNCHANGED <<continuous, config, task_description, iterations>>

MainResponseWith(responses, countPhases) ==
    MainResponseOf(Usages, responses, countPhases)

MainResponse == MainResponseWith(SeqsUpTo(ToolUses, MaxBlocks), FALSE)

\* run() has returned and the process ends: a single run (main.py:309-319),
\* or run_loop after completion, a help request or the cost limit
\* (main.py:150-166)
Exit ==
    /\ pc = "returned"
    /\ \/ ~continuous
       \/ obs.result = "complete"
       \/ needs_human_input
       \/ should_stop(cost_tracker)
    /\ ProcessEnds
    /\ obs' = [obs EXCEPT !.turn = FALSE, !.help = "none", !.helps = 0, !.failed = NoContext]
    /\ UNCHANGED <<continuous, config, disk>>

\* run_loop restarts the session: resume() and run() again (main.py:168-174,
\* 145-150)
LoopResume ==
    /\ pc = "returned"
    /\ continuous
    /\ obs.result = "not_complete"
    /\ ~needs_human_input
    /\ ~should_stop(cost_tracker)
    /\ obs.sessions < MaxSessions
    /\ CheckpointLoad(disk) # NoFile
    /\ Resume(CheckpointLoad(disk))
    /\ pc' = "run"
    /\ UNCHANGED <<continuous, config, is_complete, needs_human_input,
                   iterations, disk>>

\* An exception has left run(): run_loop saves a checkpoint and re-raises
\* (main.py:181-184); a single run has no handler for it (main.py:309-314)
Raised ==
    /\ pc = "raised"
    /\ IF continuous
       THEN /\ disk' = save_checkpoint(disk, CurrentDoc)
            /\ obs' = NoteSave(obs, "error")
       ELSE UNCHANGED <<disk, obs>>
    /\ ProcessEnds
    /\ UNCHANGED <<continuous, config>>

\* The process is killed
Kill ==
    /\ pc \in {"run", "loop", "await_summary", "await_response", "returned", "raised"}
    /\ ProcessEnds
    /\ obs' = [obs EXCEPT !.turn = FALSE, !.help = "none", !.helps = 0, !.failed = NoContext, !.result = "none", !.exit = "killed"]
    /\ UNCHANGED <<continuous, config, disk>>

\* The program is started again on the same project: a new process with a
\* new Orchestrator
Restart ==
    /\ pc = "exit"
    /\ obs.procs < MaxProcs
    /\ pc' = "main"
    /\ continuous' \in BOOLEAN
    /\ obs' = [obs EXCEPT !.procs = @ + 1, !.sessions = 1,
                          !.warnings = 0, !.alerts = 0,
                          !.warnDue = FALSE, !.alertDue = FALSE,
                          !.warnedAt = 0, !.alertedAt = 0,
                          !.lastReq = Request("none", 0, "none"),
                          !.mainOver = 0, !.executed = 0, !.turn = FALSE, !.help = "none", !.helps = 0, !.failed = NoContext,
                          !.result = "none", !.exit = "none",
                          !.resumed = FALSE, !.loads = 0, !.load = "none"]
    /\ UNCHANGED <<config, cost_tracker, disk>>
    /\ UNCHANGED orchVars

Next ==
    \/ Initialize
    \/ ResumeFails
    \/ RunBegin
    \/ MaxIterations
    \/ CostGate
    \/ TurnBegin
    \/ SummaryResponse
    \/ SummaryError
    \/ MainResponse
    \/ MainError
    \/ Exit
    \/ Raised

\* One process, one call of run(), a new project
Spec == Init /\ [][Next]_vars

\* run() moves on: from the start of run(), the top of the loop or a pending
\* model request, the position of the process changes
Advance ==
    /\ pc \in {"run", "loop", "await_summary", "await_response"}
    /\ pc' \in {"loop", "await_summary", "await_response", "returned", "raised"}
    /\ pc' # pc

\* One run in which every model call and every tool execution returns: the
\* process always takes its next step
SpecFair == Spec /\ WF_pc(Advance)

----------------------------------------------------------------------------
(* Resumption: the process may be killed and started again, and run_loop
   may resume and run again.  The number of model requests over all
   processes is capped, and a response holds at most one tool_use block. *)

ResumeToolUses ==
    {ToolUse("phase_complete", FALSE), ToolUse("task_complete", FALSE),
     ToolUse("request_help", FALSE)}

ResumeTurnBegin == TurnBeginIf(obs.requests < MaxCalls)

ResumeMainResponse == MainResponseWith(SeqsUpTo(ResumeToolUses, 1), TRUE)

NextResume ==
    \/ Initialize
    \/ ResumeAtStart
    \/ ResumeFails
    \/ RunBegin
    \/ MaxIterations
    \/ CostGate
    \/ ResumeTurnBegin
    \/ SummaryResponse
    \/ SummaryError
    \/ ResumeMainResponse
    \/ MainError
    \/ Exit
    \/ LoopResume
    \/ Raised
    \/ Kill
    \/ Restart

InitResume ==
    /\ Init
    /\ config.max_tool_calls_per_turn = 1

SpecResume == InitResume /\ [][NextResume]_vars

----------------------------------------------------------------------------
(* Resumption from a checkpoint file that was damaged or removed between
   two uses (specification SpecLoad) *)

\* checkpoint.json is removed, cut short or overwritten with bytes that are
\* no text, by something other than the program.  The file is read by
\* resume() only, so it is enough to damage it when resume() can come next.
Damage ==
    /\ pc \in {"exit", "returned"}
    /\ ValidJson(disk.checkpoint)
    /\ \E f \in {NoFile, File(disk.checkpoint.doc, FALSE), Garbled} :
        disk' = [disk EXCEPT !.checkpoint = f]
    /\ UNCHANGED <<pc, continuous, config, cost_tracker, obs>>
    /\ UNCHANGED orchVars

\* resume() is called: at the start with --resume (main.py:288-289) or by
\* run_loop after a run that stopped at the iteration bound (main.py:168-172)
ResumeCalled ==
    \/ pc = "main"
    \/ /\ pc = "returned"
       /\ continuous
       /\ obs.result = "not_complete"
       /\ ~needs_human_input
       /\ ~should_stop(cost_tracker)

\* load() returns None and resume() returns False (orchestrator.py:183-186);
\* bytes that are no UTF-8 text are read without an error where the
\* locale's encoding maps every byte
ResumeNull ==
    /\ ResumeCalled
    /\ CheckpointLoad(disk) = NoFile
    /\ pc' = "resume_failed"
    /\ obs' = [obs EXCEPT !.loads = @ + 1, !.load = "null"]
    /\ UNCHANGED <<continuous, config, cost_tracker, disk>>
    /\ UNCHANGED orchVars

\* load() raises out of resume(): run_loop catches the exception, saves a
\* checkpoint and raises it again (main.py:181-184); at the start nothing
\* catches it and the process ends (main.py:288-289)
ResumeThrows ==
    /\ ResumeCalled
    /\ LoadCanRaise(disk)
    /\ pc' = IF pc = "returned" THEN "raised" ELSE "crashed"
    /\ obs' = [obs EXCEPT !.loads = @ + 1, !.load = "raised"]
    /\ UNCHANGED <<continuous, config, cost_tracker, disk>>
    /\ UNCHANGED orchVars

\* After a failed resume() the process ends (main.py:173-174, 290-291)
ResumeExit ==
    /\ pc \in {"resume_failed", "crashed"}
    /\ ProcessEnds
    /\ UNCHANGED <<continuous, config, disk, obs>>

NextLoad ==
    \/ Initialize
    \/ ResumeAtStart
    \/ ResumeNull
    \/ ResumeThrows
    \/ ResumeExit
    \/ RunBegin
    \/ MaxIterations
    \/ CostGate
    \/ ResumeTurnBegin
    \/ SummaryResponse
    \/ SummaryError
    \/ ResumeMainResponse
    \/ MainError
    \/ Exit
    \/ LoopResume
    \/ Raised
    \/ Damage
    \/ Restart

SpecLoad == InitResume /\ [][NextLoad]_vars

----------------------------------------------------------------------------
(* The dashboard server: run() in a worker thread of the server's event
   loop, stopped from outside (specification SpecServer) *)

\* A run of the server is in progress: the worker thread is inside run()
\* and the task of run_orchestrator awaits it (server.py:374-376)
ServerRunning == pc \in {"run", "loop", "await_summary", "await_response"}

\* stop_project cancels the task (server.py:415-429): the await of
\* run_orchestrator raises CancelledError and its handler saves a
\* checkpoint from the event loop's thread (server.py:387-389); the thread
\* that executes run() is not interrupted and reads no cancellation signal
\* (orchestrator.py:336-408)
ServerStop ==
    /\ ServerRunning
    /\ ~obs.cancelled
    /\ disk' = save_checkpoint(disk, CurrentDoc)
    /\ obs' = [NoteSave(obs, "cancelled") EXCEPT !.cancelled = TRUE]
    /\ UNCHANGED <<pc, continuous, config, cost_tracker>>
    /\ UNCHANGED orchVars

\* run() ends in the worker thread, by a return or by an exception; the
\* task, if it was not cancelled, records the status, and the orchestrator
\* is dropped (server.py:376-407)
ServerRunEnds ==
    /\ pc \in {"returned", "raised"}
    /\ ProcessEnds
    /\ obs' = [obs EXCEPT !.turn = FALSE, !.help = "none", !.helps = 0, !.failed = NoContext]
    /\ UNCHANGED <<continuous, config, disk>>

InitServer == Init /\ ~continuous

NextServer ==
    \/ Initialize
    \/ RunBegin
    \/ MaxIterations
    \/ CostGate
    \/ TurnBegin
    \/ SummaryResponse
    \/ SummaryError
    \/ MainResponse
    \/ MainError
    \/ ServerStop
    \/ ServerRunEnds

SpecServer == InitServer /\ [][NextServer]_vars

\* The dashboard serving requests for one project
SpecRegistry == InitServer /\ [][NextRegistry]_vars

----------------------------------------------------------------------------
(* One Orchestrator whose owner calls initialize() or resume() and run()
   again after a run() that returned not complete (specification
   SpecReuse) *)

\* initialize() on the orchestrator of the run that has returned
\* (orchestrator.py:165-175): needs_human_input is not among the fields it
\* assigns
ReuseInitialize ==
    /\ pc = "returned"
    /\ obs.result = "not_complete"
    /\ obs.sessions < MaxSessions
    /\ \E task \in Tasks :
        /\ task_description' = task
        /\ context' = NewContext(BuildSystemPrompt(task, completed_tasks), <<>>,
                                 config.max_context_tokens,
                                 config.checkpoint_threshold,
                                 config.summary_threshold)
    /\ completed_tasks' = <<>>
    /\ is_complete' = FALSE
    /\ pc' = "run"
    /\ obs' = [obs EXCEPT !.sessions = @ + 1]
    /\ UNCHANGED <<continuous, config, token_usage, cost_tracker,
                   needs_human_input, iterations, disk>>

\* resume() on the orchestrator of the run that has returned
\* (orchestrator.py:177-204): neither does it assign needs_human_input
ReuseResume ==
    /\ pc = "returned"
    /\ obs.result = "not_complete"
    /\ obs.sessions < MaxSessions
    /\ CheckpointLoad(disk) # NoFile
    /\ Resume(CheckpointLoad(disk))
    /\ pc' = "run"
    /\ UNCHANGED <<continuous, config, is_complete, needs_human_input,
                   iterations, disk>>

NextReuse ==
    \/ Initialize
    \/ RunBegin
    \/ MaxIterations
    \/ CostGate
    \/ ResumeTurnBegin
    \/ SummaryResponse
    \/ SummaryError
    \/ ResumeMainResponse
    \/ MainError
    \/ ReuseInitialize
    \/ ReuseResume
    \/ Exit
    \/ Raised

SpecReuse == InitResume /\ [][NextReuse]_vars

----------------------------------------------------------------------------
(* Sessions, kills and restarts under a configuration whose pressure
   thresholds are not the defaults of ContextManager (specification
   SpecThresholds) *)

\* A configuration file with context.checkpoint_threshold 0.5 and
\* context.summary_threshold 0.7 (orchestrator.py:34-36)
InitThresholds ==
    /\ pc = "main"
    /\ continuous \in BOOLEAN
    /\ \E c \in Configs :
        /\ c.max_tool_calls_per_turn = 1
        /\ config = [c EXCEPT !.checkpoint_threshold = 50,
                              !.summary_threshold = 70]
    /\ cost_tracker = NewCostTracker(TRUE, TRUE)
    /\ NewOrchestrator
    /\ disk = EmptyDisk
    /\ obs = ObsInit

SpecThresholds == InitThresholds /\ [][NextResume]_vars

----------------------------------------------------------------------------
(* A run long enough for the context pressure pass to compress the
   conversation (specification SpecPressure) *)

\* loop iterations of the long run (execution.max_iterations)
PressureIter == 7
\* the budget of the long run (costs.max_budget)
PressureBudget == 200

\* The usage every response of the long run reports
PressureUsages == {[input_tokens |-> 2, output_tokens |-> 1]}

\* The summarization request of the long run returns
PressureSummaryResponse == SummaryResponseOf(PressureUsages)

\* The main request returns with at most one tool_use block
PressureMainResponse == MainResponseOf(PressureUsages, SeqsUpTo(ToolUses, 1), FALSE)

\* A new project with a small context window, so that the summary
\* threshold is met from the third turn on
InitPressure ==
    /\ pc = "main"
    /\ continuous = FALSE
    /\ \E c \in Configs :
        /\ c.max_context_tokens = 400
        /\ c.max_tool_calls_per_turn = 1
        /\ config = [c EXCEPT !.max_iterations = PressureIter]
    /\ cost_tracker = [NewCostTracker(TRUE, TRUE) EXCEPT !.config.max = PressureBudget]
    /\ NewOrchestrator
    /\ disk = EmptyDisk
    /\ obs = ObsInit

NextPressure ==
    \/ Initialize
    \/ RunBegin
    \/ MaxIterations
    \/ CostGate
    \/ TurnBegin
    \/ PressureSummaryResponse
    \/ SummaryError
    \/ PressureMainResponse
    \/ MainError
    \/ Exit
    \/ Raised

SpecPressure == InitPressure /\ [][NextPressure]_vars

----------------------------------------------------------------------------
(* One CostTracker under any calls (specification SpecCost) *)

\* Totals a resumed checkpoint can hand to set_initial_cost
InitialCosts == {0, 12, 30, 55}

\* CostTracker.add_usage, called with any model of the pricing table
CtAddUsage ==
    /\ pc = "tracker"
    /\ Len(obs.ops) < MaxCalls
    /\ \E model \in Models, usage \in Usages :
        LET r == add_usage(cost_tracker, model,
                           usage.input_tokens, usage.output_tokens)
        IN  /\ cost_tracker' = r.ct
            /\ obs' = [NoteThresholds(obs, r) EXCEPT !.ops = Append(@, "add_usage")]
    /\ UNCHANGED <<pc, continuous, config, disk>>
    /\ UNCHANGED orchVars

\* CostTracker.set_initial_cost, called with any total
CtSetInitialCost ==
    /\ pc = "tracker"
    /\ Len(obs.ops) < MaxCalls
    /\ \E cost \in InitialCosts :
        LET r == set_initial_cost(cost_tracker, cost)
        IN  /\ cost_tracker' = r.ct
            /\ obs' = [NoteThresholds(obs, r)
                          EXCEPT !.ops = Append(@, "set_initial_cost")]
    /\ UNCHANGED <<pc, continuous, config, disk>>
    /\ UNCHANGED orchVars

\* A CostTracker as main.py and the tests construct it: with or without
\* each callback
InitCost ==
    /\ pc = "tracker"
    /\ continuous = FALSE
    /\ config \in {c \in Configs : c.max_context_tokens = 150000
                                   /\ c.max_tool_calls_per_turn = 1}
    /\ \E onWarning \in BOOLEAN, onAlert \in BOOLEAN :
        cost_tracker = NewCostTracker(onWarning, onAlert)
    /\ NewOrchestrator
    /\ disk = EmptyDisk
    /\ obs = ObsInit

NextCost == CtAddUsage \/ CtSetInitialCost

SpecCost == InitCost /\ [][NextCost]_vars

----------------------------------------------------------------------------
(* One conversation under summarization (specification SpecSumm) *)

\* A user message is added to the conversation
ConvAddUser ==
    /\ pc = "conversation"
    /\ obs.nextId <= MaxMsgs
    /\ context' = add_user_message(context, "text", 10 * obs.nextId)
    /\ obs' = [obs EXCEPT !.nextId = @ + 1]
    /\ UNCHANGED <<pc, continuous, config, token_usage, cost_tracker,
                   task_description, completed_tasks, is_complete,
                   needs_human_input, iterations, disk>>

\* An assistant message with a text block and one tool_use block is added
ConvAddAssistant ==
    /\ pc = "conversation"
    /\ obs.nextId <= MaxMsgs
    /\ context' = add_assistant_message(context, <<obs.nextId>>,
                                        <<Sizes.text, Sizes.input>>)
    /\ obs' = [obs EXCEPT !.nextId = @ + 1]
    /\ UNCHANGED <<pc, continuous, config, token_usage, cost_tracker,
                   task_description, completed_tasks, is_complete,
                   needs_human_input, iterations, disk>>

\* A message of one tool result is added
ConvAddToolResults ==
    /\ pc = "conversation"
    /\ obs.nextId <= MaxMsgs
    /\ context' = add_tool_results(context,
                      <<[tool_use_id |-> obs.nextId, chars |-> Sizes.result]>>)
    /\ obs' = [obs EXCEPT !.nextId = @ + 1]
    /\ UNCHANGED <<pc, continuous, config, token_usage, cost_tracker,
                   task_description, completed_tasks, is_complete,
                   needs_human_input, iterations, disk>>

\* ContextManager.summarize_old_context is called with any summary and any
\* keep_recent
ConvSummarize ==
    /\ pc = "conversation"
    /\ \E summary \in {"s1", "s2"}, keep_recent \in 0..MaxKeep :
        /\ context' = summarize_old_context(context, summary, keep_recent)
        /\ obs' = [obs EXCEPT !.before = context.messages,
                              !.keep = keep_recent,
                              !.summary = summary]
    /\ pc' = "summarized"
    /\ UNCHANGED <<continuous, config, token_usage, cost_tracker,
                   task_description, completed_tasks, is_complete,
                   needs_human_input, iterations, disk>>

\* The conversation goes on after a summarization
ConvContinue ==
    /\ pc = "summarized"
    /\ pc' = "conversation"
    /\ UNCHANGED <<continuous, config, cost_tracker, disk, obs>>
    /\ UNCHANGED orchVars

InitSumm ==
    /\ pc = "conversation"
    /\ continuous = FALSE
    /\ config \in {c \in Configs : c.max_context_tokens = 150000
                                   /\ c.max_tool_calls_per_turn = 1}
    /\ cost_tracker = NewCostTracker(TRUE, TRUE)
    /\ \E task \in Tasks :
        /\ task_description = task
        /\ context = NewContext(BuildSystemPrompt(task, <<>>), <<>>,
                                config.max_context_tokens,
                                config.checkpoint_threshold,
                                config.summary_threshold)
    /\ token_usage = NewTokenUsage
    /\ completed_tasks = <<>>
    /\ is_complete = FALSE
    /\ needs_human_input = FALSE
    /\ iterations = 0
    /\ disk = EmptyDisk
    /\ obs = ObsInit

NextSumm ==
    \/ ConvAddUser
    \/ ConvAddAssistant
    \/ ConvAddToolResults
    \/ ConvSummarize
    \/ ConvContinue

SpecSumm == InitSumm /\ [][NextSumm]_vars

----------------------------------------------------------------------------
(* CheckpointManager.save step by step, with crashes (specification SpecSave) *)

\* A model call is accounted for: the state that a save writes has changed
Account ==
    /\ pc = "run"
    /\ cost_tracker.total_cost < CostCap
    /\ \E usage \in Usages :
        LET r == CallApiCost(usage)
        IN  /\ token_usage' = CallApiTokens(usage)
            /\ cost_tracker' = r.ct
            /\ obs' = NoteThresholds(obs, r)
    /\ UNCHANGED <<pc, continuous, config, context, task_description,
                   completed_tasks, is_complete, needs_human_input,
                   iterations, disk>>

\* The conversation grows by one message (the initial prompt of run(), then
\* assistant text), so that saves write conversations of several lengths
Talk ==
    /\ pc = "run"
    /\ Len(context.messages) < MaxTalk
    /\ context' = IF context.messages = <<>>
                  THEN add_user_message(context, "begin", BeginChars)
                  ELSE add_assistant_message(context, <<>>, <<Sizes.text>>)
    /\ UNCHANGED <<pc, continuous, config, token_usage, cost_tracker,
                   task_description, completed_tasks, is_complete,
                   needs_human_input, iterations, disk, obs>>

\* save() is entered: checkpoint.tmp is opened and part of the text written
SaveOpen ==
    /\ pc = "run"
    /\ Len(disk.history) < MaxSaves
    /\ disk' = WriteOpen(disk, CurrentDoc)
    /\ obs' = [obs EXCEPT !.prev = disk.checkpoint,
                          !.intended = File(CurrentDoc, TRUE),
                          !.steps = 1]
    /\ pc' = "save_open"
    /\ UNCHANGED <<continuous, config, cost_tracker>>
    /\ UNCHANGED orchVars

\* write_text completes
SaveWrite ==
    /\ pc = "save_open"
    /\ disk' = WriteRest(disk, CurrentDoc)
    /\ obs' = [obs EXCEPT !.steps = 2]
    /\ pc' = "save_written"
    /\ UNCHANGED <<continuous, config, cost_tracker>>
    /\ UNCHANGED orchVars

\* the rename
SaveRename ==
    /\ pc = "save_written"
    /\ disk' = RenameTmp(disk)
    /\ obs' = [obs EXCEPT !.steps = 3]
    /\ pc' = "save_renamed"
    /\ UNCHANGED <<continuous, config, cost_tracker>>
    /\ UNCHANGED orchVars

\* the history append; save() returns
SaveHistory ==
    /\ pc = "save_renamed"
    /\ disk' = AppendHistory(disk, CurrentDoc)
    /\ obs' = [obs EXCEPT !.steps = 4]
    /\ pc' = "run"
    /\ UNCHANGED <<continuous, config, cost_tracker>>
    /\ UNCHANGED orchVars

\* The process crashes before, inside or after save()
SaveCrash ==
    /\ pc \in {"run", "save_open", "save_written", "save_renamed"}
    /\ ProcessEnds
    /\ obs' = [obs EXCEPT !.exit = "killed"]
    /\ UNCHANGED <<continuous, config, disk>>

InitSave ==
    /\ Init
    /\ continuous = FALSE
    /\ config.max_context_tokens = 150000
    /\ config.max_tool_calls_per_turn = 1

NextSave ==
    \/ Initialize
    \/ ResumeAtStart
    \/ ResumeFails
    \/ Account
    \/ Talk
    \/ SaveOpen
    \/ SaveWrite
    \/ SaveRename
    \/ SaveHistory
    \/ SaveCrash
    \/ Restart

SpecSave == InitSave /\ [][NextSave]_vars

----------------------------------------------------------------------------
(* One turn with tool calls, tool by tool (specification SpecTools) *)

\* Path arguments: the file f as a relative and as an absolute path, a new
\* file in a directory that does not exist yet, and three ways out of the
\* project (".." segments, the link "out", an absolute path)
PF == PathArg(FALSE, <<"f">>)
PAbsF == PathArg(TRUE, <<"p", "f">>)
PNew == PathArg(FALSE, <<"d", "g">>)
PDotDot == PathArg(FALSE, <<"..", "etc", "s">>)
PLink == PathArg(FALSE, <<"out", "s">>)
PAbsOut == PathArg(TRUE, <<"etc", "s">>)

FilePaths == {PF, PAbsF, PNew, PDotDot, PLink, PAbsOut}

\* Directory arguments of glob, grep and list_dir: none, the empty string,
\* the link to the outside directory, the parent of the project, a file
DirPaths ==
    {NoPath, PathArg(FALSE, <<>>), PathArg(FALSE, <<"out">>),
     PathArg(FALSE, <<"..">>), PF}

\* Texts of the file f at the start
Texts == {<<"a", "a", "a">>, <<"a", "b", "a">>, <<>>}

\* Shell commands: ls; cat f; rm -rf .; echo hi; mv a b; ls rm; ls mv;
\* rm;ls; ls|cat; the empty command
Commands ==
    {<< <<"ls">> >>,
     << <<"cat">>, <<"f">> >>,
     << <<"rm">>, <<"-rf">>, <<".">> >>,
     << <<"echo">>, <<"hi">> >>,
     << <<"mv">>, <<"a">>, <<"b">> >>,
     << <<"ls">>, <<"rm">> >>,
     << <<"ls">>, <<"mv">> >>,
     << <<"rm", ";", "ls">> >>,
     << <<"ls", "|", "cat">> >>,
     <<>>}

\* Shell policies: the lists of the tools configuration with each behaviour
\* of the confirmation callback
BashConfigs ==
    {BashConfig(p[1], p[2], p[3], cb) :
        p \in {<< <<"ls", "cat">>, <<"rm">>, <<"mv">> >>,
               << <<>>, <<"rm">>, <<"mv">> >>,
               << <<>>, <<>>, <<>> >>},
        cb \in {"none", "confirms", "declines"}}

\* The tool calls a response can hold
ToolCalls ==
    {ReadFile(p) : p \in FilePaths}
    \cup {WriteFile(p, <<"b">>) : p \in FilePaths}
    \cup {EditFile(p, old, new, all) :
            p \in {PF, PNew, PLink},
            old \in {<<"a">>, <<"a", "a">>, <<"b">>, <<>>},
            new \in {<<"b">>, <<>>}, all \in BOOLEAN}
    \cup {Bash(c) : c \in Commands}
    \cup {Search(name, p) : name \in {"glob", "grep", "list_dir"}, p \in DirPaths}
    \cup {Plain("phase_complete", TRUE, FALSE),
          Plain("task_complete", TRUE, FALSE),
          Plain("task_complete", FALSE, FALSE),
          Plain("request_help", TRUE, TRUE),
          Plain("request_help", TRUE, FALSE),
          Plain("request_help", FALSE, FALSE),
          Plain("frobnicate", TRUE, FALSE)}

\* The calls that responses with several tool_use blocks are made of
TurnCalls ==
    {WriteFile(PF, <<"b">>), ReadFile(PF), Bash(<< <<"ls">> >>),
     Plain("task_complete", FALSE, FALSE), Plain("request_help", TRUE, TRUE)}

ToolTurns ==
    {<<c>> : c \in ToolCalls} \cup (SeqsUpTo(TurnCalls, MaxBlocks + 1) \ {<<>>})

\* The blocks add_tool_results builds from the results (context.py:138-145)
ToolResultBlocks(results) ==
    [i \in 1..Len(results) |->
        [type |-> "tool_result", tool_use_id |-> results[i].tool_use_id,
         content |-> results[i].content, is_error |-> results[i].is_error]]

\* The first turn of a run begins
ToolsTurnBegin == TurnBeginIf(iterations = 0)

\* The response arrives with its tool_use blocks; _execute_tools is entered
\* and cuts the list (orchestrator.py:350, 356-369, 388, 247-255)
ToolsResponse ==
    /\ pc = "await_response"
    /\ \E usage \in Usages, calls \in ToolTurns :
        LET r == CallApiCost(usage)
            n == Len(calls)
            ids == [i \in 1..n |-> obs.nextId + i - 1]
            blocks == <<Sizes.text>> \o [i \in 1..n |-> Sizes.input]
            tool_uses == [i \in 1..n |-> [id |-> ids[i], call |-> calls[i]]]
            kept == KeptToolUses(tool_uses, config.max_tool_calls_per_turn)
        IN  /\ token_usage' = CallApiTokens(usage)
            /\ cost_tracker' = r.ct
            /\ context' = add_assistant_message(context, ids, blocks)
            /\ obs' = [NoteThresholds(obs, r) EXCEPT
                          !.nextId = @ + n,
                          !.tools = ToolTurn(tool_uses, kept)]
    /\ pc' = "tools_exec"
    /\ UNCHANGED <<continuous, config, task_description, completed_tasks,
                   is_complete, needs_human_input, iterations, disk>>

\* What one pass of the for loop of _execute_tools does with the call at
\* position j (orchestrator.py:257-289)
ToolsPass(j) ==
    LET t == obs.tools
        call == t.kept[j].call
        ex == execute(disk.project, config.bash, call)
        help == call.name = "request_help"
        done == call.name = "task_complete"
        content == IF help /\ call.answered THEN "Human response" ELSE ex.content
    IN  /\ disk' = [disk EXCEPT !.project = ex.fs]
        /\ is_complete' = (is_complete \/ done)
        /\ completed_tasks' = IF done THEN Append(completed_tasks, "done")
                              ELSE completed_tasks
        /\ needs_human_input' = IF help THEN ~call.answered
                                ELSE needs_human_input
        /\ obs' = [obs EXCEPT
                      !.executed = @ + 1,
                      !.tools = [t EXCEPT
                          !.results = Append(@,
                              [tool_use_id |-> t.kept[j].id, content |-> content,
                               text |-> ex.text, is_error |-> ex.is_error,
                               chars |-> Sizes.result]),
                          !.touched = @ \cup ex.touched,
                          !.spawned = @ + ex.spawned]]

\* The next tool of the turn is executed
ToolsExec ==
    /\ pc = "tools_exec"
    /\ Len(obs.tools.results) < Len(obs.tools.kept)
    /\ ToolsPass(Len(obs.tools.results) + 1)
    /\ UNCHANGED <<pc, continuous, config, context, token_usage, cost_tracker,
                   task_description, iterations>>

\* _execute_tools returns; the results become one message and the flags
\* decide how the iteration ends (orchestrator.py:291, 389-401)
ToolsReturn ==
    /\ pc = "tools_exec"
    /\ Len(obs.tools.results) = Len(obs.tools.kept)
    /\ LET ctx2 == add_tool_results(context, obs.tools.results)
           o2 == [obs EXCEPT !.tools.reported = ToolResultBlocks(obs.tools.results)]
       IN  /\ context' = ctx2
           /\ IF is_complete
              THEN /\ disk' = CheckpointClear(disk)
                   /\ obs' = [o2 EXCEPT !.result = "complete",
                                        !.exit = "task_complete"]
                   /\ pc' = "returned"
              ELSE IF needs_human_input
              THEN /\ disk' = save_checkpoint(disk,
                                CheckpointDoc(ctx2, token_usage,
                                              cost_tracker.total_cost,
                                              task_description, completed_tasks))
                   /\ obs' = [NoteSave(o2, "human_input_needed")
                                EXCEPT !.result = "not_complete",
                                       !.exit = "human_input_needed"]
                   /\ pc' = "returned"
              ELSE /\ disk' = disk
                   /\ obs' = o2
                   /\ pc' = "loop"
    /\ UNCHANGED <<continuous, config, token_usage, cost_tracker,
                   task_description, completed_tasks, is_complete,
                   needs_human_input, iterations>>

\* A new process with the project's files and the shell policy of the
\* tools configuration
InitTools ==
    /\ pc = "main"
    /\ continuous = FALSE
    /\ \E c \in Configs, b \in BashConfigs, text \in Texts :
        /\ c.max_context_tokens = 150000
        /\ b = DefaultBash \/ text = <<"a", "a", "a">>
        /\ config = [c EXCEPT !.bash = b]
        /\ disk = [EmptyDisk EXCEPT !.project = ProjectWith(text)]
    /\ cost_tracker = NewCostTracker(TRUE, TRUE)
    /\ NewOrchestrator
    /\ obs = ObsInit

NextTools ==
    \/ Initialize
    \/ RunBegin
    \/ ToolsTurnBegin
    \/ ToolsResponse
    \/ ToolsExec
    \/ ToolsReturn

SpecTools == InitTools /\ [][NextTools]_vars

----------------------------------------------------------------------------
(* Claims about one run (specification Spec) *)

Last(s) == s[Len(s)]

\* Every assistant message with tool_use blocks is directly followed by one
\* user message of tool_result blocks with the same ids in the same order.
Paired(messages) ==
    \A i \in 1..Len(messages) :
        (messages[i].role = "assistant" /\ messages[i].ids # <<>>)
            => /\ i < Len(messages)
               /\ messages[i + 1].role = "user"
               /\ messages[i + 1].tag = "tool_result"
               /\ messages[i + 1].ids = messages[i].ids

\* C1: in every conversation reachable by run(), for any number of tool_use
\* blocks in a response and any max_tool_calls_per_turn, the message after
\* an assistant message with tool_use ids i1..in is one user message whose
\* tool_result blocks carry exactly i1..in, in order.
C1_ToolResultPairing ==
    context # NoContext => Paired(context.messages)

\* C2: no model request of any kind is sent in a state where
\* cost_tracker.total_cost >= config.max.
C2_HardBudgetGate ==
    obs.lastReq.kind # "none" => obs.lastReq.cost < cost_tracker.config.max

\* C3: if the total cost is at or above max at the start of a loop
\* iteration, that iteration sends no request and executes no tool, saves a
\* checkpoint of the current state with reason cost_limit, and run() returns
\* not complete; and once a model call has raised the total to max or above,
\* the loop halts before a second main-loop request: a request is sent at or
\* above max at most once in a run, and only as the main request that
\* follows a summarization response of the same iteration.
C3_CostHardStop ==
    /\ [][(/\ pc = "loop"
           /\ iterations < config.max_iterations
           /\ cost_tracker.total_cost >= cost_tracker.config.max)
          => (/\ pc' = "returned"
              /\ obs'.result = "not_complete"
              /\ obs'.exit = "cost_limit"
              /\ obs'.reason = "cost_limit"
              /\ obs'.requests = obs.requests
              /\ obs'.executed = obs.executed
              /\ context' = context
              /\ ValidJson(disk'.checkpoint)
              /\ disk'.checkpoint.doc = CurrentDoc)]_vars
    /\ [](obs.mainOver <= 1)
    /\ [](obs.lastReq.cost >= cost_tracker.config.max
            => obs.lastReq.kind = "main" /\ obs.lastReq.after = "summary")

C3_Witness ==
    /\ pc = "returned"
    /\ obs.exit = "cost_limit"
    /\ obs.reason = "cost_limit"
    /\ obs.lastReq.kind = "main"
    /\ obs.lastReq.after = "gate"

\* C7: whenever run() returns complete, checkpoint.json does not exist and
\* an archived completed-*.json does, whether or not a checkpoint had been
\* saved earlier in the run.
C7_TerminalClear ==
    (pc = "returned" /\ obs.result = "complete")
        => (disk.checkpoint = NoFile /\ disk.completed >= 1)

\* C8 as stated: a turn that executes task_complete does not end run(), and
\* run() returns complete only at an end_turn response with no tool use.
C8_CompletionOnFollowingTurn ==
    /\ obs.turn => pc = "loop"
    /\ (pc = "returned" /\ obs.result = "complete") => obs.exit = "end_turn"

\* C8 as amended: when a turn's executed tools include task_complete, the
\* completion flag is set, the summary is appended to completed_tasks, the
\* turn's tool_result message is appended, and run() returns complete in
\* that same turn, after the checkpoint clear and with no further request.
C8_CompletionInSameTurn ==
    obs.turn =>
        /\ is_complete
        /\ completed_tasks # <<>>
        /\ Last(completed_tasks) \in Summaries
        /\ Last(context.messages).tag = "tool_result"
        /\ pc = "returned"
        /\ obs.result = "complete"
        /\ obs.exit = "task_complete"
        /\ disk.checkpoint = NoFile

C8_Witness ==
    /\ obs.turn
    /\ pc = "returned"
    /\ obs.result = "complete"
    /\ Len(context.messages) >= 5

----------------------------------------------------------------------------
(* Claims about interrupted and resumed runs (specification SpecResume) *)

\* Every counter of TokenUsage and of CostTracker in b is at least its
\* value in a
NotBelow(tu_a, ct_a, tu_b, ct_b) ==
    /\ tu_b.input_tokens >= tu_a.input_tokens
    /\ tu_b.output_tokens >= tu_a.output_tokens
    /\ tu_b.cache_read_tokens >= tu_a.cache_read_tokens
    /\ tu_b.cache_creation_tokens >= tu_a.cache_creation_tokens
    /\ ct_b.total_cost >= ct_a.total_cost
    /\ ct_b.input_tokens >= ct_a.input_tokens
    /\ ct_b.output_tokens >= ct_a.output_tokens
    /\ ct_b.api_calls >= ct_a.api_calls
    /\ \A m \in DOMAIN ct_a.cost_by_model :
        /\ m \in DOMAIN ct_b.cost_by_model
        /\ ct_b.cost_by_model[m] >= ct_a.cost_by_model[m]
    /\ \A m \in DOMAIN ct_a.tokens_by_model :
        /\ m \in DOMAIN ct_b.tokens_by_model
        /\ ct_b.tokens_by_model[m].input >= ct_a.tokens_by_model[m].input
        /\ ct_b.tokens_by_model[m].output >= ct_a.tokens_by_model[m].output

\* C5: within one process the four TokenUsage counters and the CostTracker
\* counters total_cost, input_tokens, output_tokens, api_calls and the
\* per-model cost and tokens never decrease from one state to the next,
\* across model calls, tool turns, summarizations, API errors, the resume()
\* of a starting process and the resume() that run_loop makes between runs.
C5_MonotoneUsage ==
    [][pc' # "exit" => NotBelow(token_usage, cost_tracker,
                                token_usage', cost_tracker')]_vars

C5_Witness ==
    /\ pc = "run"
    /\ obs.resumed
    /\ obs.sessions = 2
    /\ token_usage.input_tokens > 0
    /\ cost_tracker.api_calls >= 2

\* C9: after two phase_complete calls have succeeded and a checkpoint has
\* been saved, a process that starts with resume=True and finds that
\* checkpoint has completed_tasks of length 2, a system prompt listing the
\* two completed phases, and the saved conversation.
C9_ResumeKeepsPhases ==
    (pc = "run" /\ obs.resumed /\ obs.procs >= 2 /\ obs.phasesSaved = 2)
        => /\ Len(completed_tasks) = 2
           /\ Len(context.system_prompt.completed) = 2
           /\ context.messages = disk.checkpoint.doc.context.messages

----------------------------------------------------------------------------
(* Claims about the Cost Tracker (specification SpecCost) *)

\* C4: over any sequence of add_usage and set_initial_cost calls on one
\* CostTracker, on_warning and on_alert are each invoked at most once; each
\* has been invoked exactly when some threshold evaluation has seen the
\* total at or above its threshold (so it is invoked at the first such
\* evaluation), with a total at or above the threshold, and never when the
\* callback is not installed.
C4_ThresholdLatches ==
    /\ obs.warnings <= 1
    /\ obs.alerts <= 1
    /\ cost_tracker.on_warning => (obs.warnings = 1 <=> obs.warnDue)
    /\ cost_tracker.on_alert => (obs.alerts = 1 <=> obs.alertDue)
    /\ ~cost_tracker.on_warning => obs.warnings = 0
    /\ ~cost_tracker.on_alert => obs.alerts = 0
    /\ obs.warnings = 1 => obs.warnedAt >= cost_tracker.config.warn
    /\ obs.alerts = 1 => obs.alertedAt >= cost_tracker.config.alert
    /\ cost_tracker.warning_acknowledged <=> obs.warnDue
    /\ cost_tracker.alert_acknowledged <=> obs.alertDue

C4_Witness ==
    /\ Len(obs.ops) >= 3
    /\ obs.ops[1] = "set_initial_cost"
    /\ obs.ops[2] = "add_usage"
    /\ obs.ops[3] = "add_usage"
    /\ obs.warnedAt \in InitialCosts
    /\ obs.warnings = 1
    /\ obs.alerts = 1
    /\ obs.alertedAt > obs.warnedAt

----------------------------------------------------------------------------
(* Claims about summarization (specification SpecSumm) *)

\* C10: summarize_old_context(S, k) on a conversation of N > 2k messages
\* leaves the last 2k messages unchanged and in order, makes the message
\* count 2k + 1, and puts one synthetic user-role summary message that
\* quotes S in first position.
C10_SummarizationKeepsTail ==
    (pc = "summarized" /\ Len(obs.before) > 2 * obs.keep)
        => LET N == Len(obs.before)
               k == obs.keep
               messages == context.messages
           IN  /\ Len(messages) = 2 * k + 1
               /\ messages[1].role = "user"
               /\ messages[1].tag = "summary"
               /\ messages[1].summary = obs.summary
               /\ \A i \in 1..(2 * k) : messages[1 + i] = obs.before[N - 2 * k + i]

C10_Witness ==
    /\ pc = "summarized"
    /\ obs.keep = 2
    /\ Len(obs.before) = 5
    /\ Len(context.messages) = 5
    /\ context.messages[1].summary = "s2"

\* C11: summarize_old_context(S, k) never changes the system prompt, and on
\* a conversation of at most 2k messages it leaves the message list and the
\* token estimate as they were.
C11_SummarizationFrame ==
    [][(pc = "conversation" /\ pc' = "summarized")
        => /\ context'.system_prompt = context.system_prompt
           /\ Len(context.messages) <= 2 * obs'.keep
                => /\ context'.messages = context.messages
                   /\ context'.estimated_tokens = context.estimated_tokens]_vars

C11_Witness ==
    /\ pc = "summarized"
    /\ obs.keep >= 1
    /\ Len(obs.before) = 2 * obs.keep
    /\ context.messages = obs.before
    /\ context.system_prompt = BuildSystemPrompt(task_description, completed_tasks)

----------------------------------------------------------------------------
(* Claims about the checkpoint store (specification SpecSave) *)

\* C6: whatever step of CheckpointManager.save the process crashes at,
\* checkpoint.json is afterwards what it was before the save (absent, or the
\* previous complete checkpoint) or the complete new checkpoint, and what a
\* reader finds in checkpoint.json is never a partial document.
C6_AtomicCheckpoint ==
    /\ disk.checkpoint = NoFile \/ ValidJson(disk.checkpoint)
    /\ obs.intended # NoFile => disk.checkpoint \in {obs.prev, obs.intended}
    /\ obs.prev = NoFile \/ ValidJson(obs.prev)

C6_Witness ==
    /\ pc = "exit"
    /\ obs.exit = "killed"
    /\ obs.steps = 1
    /\ disk.tmp # NoFile
    /\ ~ValidJson(disk.tmp)
    /\ obs.prev # NoFile
    /\ disk.checkpoint = obs.prev
    /\ obs.intended # obs.prev

\* The Context Manager, Token Usage and total cost that a restore of the
\* checkpoint on disk yields, when that checkpoint is a save of the current
\* state
JustSaved ==
    /\ pc = "run"
    /\ ValidJson(disk.checkpoint)
    /\ disk.checkpoint.doc = CurrentDoc

C13_HelpRequests ==
    [][(pc = "await_response" /\ obs'.nextId > obs.nextId)
        => /\ obs'.help = "unanswered"
                => /\ pc' = "returned"
                   /\ obs'.result = "not_complete"
                   /\ obs'.exit = "human_input_needed"
                   /\ obs'.reason = "human_input_needed"
                   /\ ValidJson(disk'.checkpoint)
                   /\ disk'.checkpoint.doc = CurrentDoc'
           /\ (obs'.help = "answered" /\ ~obs'.turn)
                => /\ pc' = "loop"
                   /\ ~needs_human_input']_vars

\* C14: provided every model call and tool execution returns, run() always
\* ends (it returns, or raises the error of a summarization request); the
\* loop body is entered at most max_iterations times, a failed request
\* counting as one; and when the bound is reached the run sends nothing
\* more, saves a checkpoint of the state with reason max_iterations and
\* returns not complete.
C14_IterationBound ==
    /\ [](iterations <= config.max_iterations)
    /\ [][(pc = "loop" /\ iterations >= config.max_iterations)
          => (/\ pc' = "returned"
              /\ obs'.result = "not_complete"
              /\ obs'.exit = "max_iterations"
              /\ obs'.reason = "max_iterations"
              /\ obs'.requests = obs.requests
              /\ obs'.executed = obs.executed
              /\ ValidJson(disk'.checkpoint)
              /\ disk'.checkpoint.doc = CurrentDoc)]_vars
    /\ (pc = "run") ~> (pc \in {"returned", "raised"})

C14_Witness ==
    /\ pc = "returned"
    /\ obs.exit = "max_iterations"
    /\ iterations = config.max_iterations
    /\ obs.requests = config.max_iterations
    /\ Len(context.messages) = 1

\* C15: a model request of run() that fails with a transport error makes
\* run() neither raise nor return; the turn is tried again, and the message
\* list of the request sent next equals that of the failed request.
C15_TransportRetry ==
    /\ [](pc # "raised")
    /\ [][(/\ pc = "loop"
           /\ obs.failed # NoContext
           /\ pc' \in {"await_summary", "await_response"})
          => context'.messages = obs.failed.messages]_vars

----------------------------------------------------------------------------
(* Claims about the tools (specification SpecTools) *)

\* The tool_use blocks of the turn, the results collected so far, and the
\* number of blocks _execute_tools may execute
Emitted == obs.tools.tool_uses
Collected == obs.tools.results
Quota == Min(Len(Emitted), config.max_tool_calls_per_turn)

\* C16: within a turn the executed tools are the first
\* min(n, max_tool_calls_per_turn) tool_use blocks of the response: the
\* results are collected in the order of the blocks, result i for block i,
\* never more than that many, and all of them once the turn is over; each
\* execution adds the result of the next block only; a tool starts after
\* the one before has returned, so a read_file that follows a write_file
\* of the same file returns what was written; and no model request is in
\* flight or made while a tool runs.
C16_SequentialDispatch ==
    /\ [](/\ Len(Collected) <= Quota
          /\ \A i \in 1..Len(Collected) :
                Collected[i].tool_use_id = Emitted[i].id
          /\ (pc \in {"loop", "returned"} /\ Emitted # <<>>)
                => Len(Collected) = Quota
          /\ \A i \in 1..(Len(Collected) - 1) :
                (/\ Emitted[i].call.name = "write_file"
                 /\ ~Collected[i].is_error
                 /\ Emitted[i + 1].call = ReadFile(Emitted[i].call.path))
                => (/\ ~Collected[i + 1].is_error
                    /\ Collected[i + 1].text = Emitted[i].call.content))
    /\ [][obs'.executed > obs.executed
            => /\ Len(Collected') = Len(Collected) + 1
               /\ Take(Collected', Len(Collected)) = Collected
               /\ pc \notin {"await_summary", "await_response"}
               /\ pc' \notin {"await_summary", "await_response"}
               /\ obs'.requests = obs.requests]_vars

\* A response with more blocks than may be executed, the first a write of
\* f and the second a read of it, has been worked off: the read returned
\* the new text
C16_Witness ==
    /\ pc = "loop"
    /\ Len(Emitted) > Quota
    /\ Len(Collected) = 2
    /\ Emitted[1].call = WriteFile(PF, <<"b">>)
    /\ Emitted[2].call = ReadFile(PF)
    /\ Collected[2].text = <<"b">>
    /\ disk.project[<<"p", "f">>] = FileNode(<<"b">>)

\* C17: tool errors never escape the executor: every execution, of a known
\* or an unknown tool, with any input, adds a result with a Boolean
\* is_error; a tool that failed is reported with is_error = TRUE in the
\* tool_result block of the conversation, the rest of the turn is executed,
\* and the failed tool leaves the completion and help flags alone, so that
\* a turn in which every tool failed is followed by the next iteration.
C17_ToolErrorsContained ==
    /\ [](/\ \A i \in 1..Len(Collected) : Collected[i].is_error \in BOOLEAN
          /\ \A i \in 1..Len(obs.tools.reported) :
                /\ obs.tools.reported[i].tool_use_id = Emitted[i].id
                /\ obs.tools.reported[i].is_error = Collected[i].is_error
          /\ (pc \in {"loop", "returned"} /\ Emitted # <<>>)
                => /\ Len(obs.tools.reported) = Quota
                   /\ (\A i \in 1..Quota : Collected[i].is_error) => pc = "loop")
    /\ [][obs'.executed > obs.executed
            => /\ Len(Collected') = Len(Collected) + 1
               /\ Last(Collected').is_error
                    => /\ is_complete' = is_complete
                       /\ needs_human_input' = needs_human_input]_vars

\* The call the next pass of the tool loop executes, and the result of the
\* pass just made
NextCall == obs.tools.kept[Len(Collected) + 1].call
NewResult == Last(obs.tools.results)

\* A bash call started its command / failed for the given reason
Ran(result) == ~result.is_error /\ result.content = "output"
FailedAs(result, why) == result.is_error /\ result.content \in why

\* C18: shell policy layering: for any bash command, (1) if its command
\* word is in blocked the call fails as blocked; otherwise (2) if allowed
\* is not empty and the command word is not in it the call fails as not
\* allowed; otherwise (3) if a token is in confirm the command runs only
\* when the confirmation callback is installed and returns true, and fails
\* as unconfirmed when none is installed.  A failed call starts no
\* subprocess.  With allowed = [ls, cat], blocked = [rm], confirm = [mv]
\* and no callback, ls and cat run, "rm -rf ." fails as blocked, "echo hi"
\* as not allowed and "mv a b" as unconfirmed.
C18_ShellPolicy ==
    [][(obs'.executed > obs.executed /\ NextCall.name = "bash"
            /\ NextCall.command # <<>>)
        => LET bash == config.bash
               parts == NextCall.command
               word == BaseCmd(parts)
               result == NewResult'
               example == bash = BashConfig(<<"ls", "cat">>, <<"rm">>,
                                            <<"mv">>, "none")
               unconfirmed == {"was not confirmed by user",
                               "no confirmation handler is set"}
           IN  /\ IF InList(word, bash.blocked)
                  THEN FailedAs(result, {"blocked for security"})
                  ELSE IF bash.allowed # <<>> /\ ~InList(word, bash.allowed)
                  THEN FailedAs(result, {"not in allowed list"})
                  ELSE (\E i \in 1..Len(parts) : InList(parts[i], bash.confirm))
                        => /\ Ran(result) => bash.on_confirm_request = "confirms"
                           /\ bash.on_confirm_request = "none"
                                => FailedAs(result, unconfirmed)
               /\ result.is_error => obs'.tools.spawned = obs.tools.spawned
               /\ example =>
                    /\ parts \in {<< <<"ls">> >>, << <<"cat">>, <<"f">> >>}
                         => Ran(result)
                    /\ parts = << <<"rm">>, <<"-rf">>, <<".">> >>
                         => FailedAs(result, {"blocked for security"})
                    /\ parts = << <<"echo">>, <<"hi">> >>
                         => FailedAs(result, {"not in allowed list"})
                    /\ parts = << <<"mv">>, <<"a">>, <<"b">> >>
                         => FailedAs(result, unconfirmed)]_vars

\* The tools that take a path
PathTools == {"read_file", "write_file", "edit_file", "glob", "grep", "list_dir"}

\* The place a path argument leads to lies outside the project directory
LeadsOutside(fs, path) ==
    ~IsRelativeTo(Resolve(fs, JoinProject(path)), ProjectDir)

\* C19: path confinement: a call of read_file, write_file, edit_file, glob,
\* grep or list_dir with a path that, resolved against the project root
\* with its ".." segments and symbolic links, is neither the root nor a
\* descendant of it fails with is_error = TRUE and an "outside project
\* directory" message, changes no file and opens none; so no place outside
\* the project is ever opened or changed by these tools.
C19_PathConfinement ==
    /\ [][(/\ obs'.executed > obs.executed
            /\ NextCall.name \in PathTools /\ NextCall.ok /\ NextCall.path.given
            /\ LeadsOutside(disk.project, NextCall.path))
           => /\ NewResult'.is_error
              /\ NewResult'.content = "outside project directory"
              /\ disk'.project = disk.project
              /\ obs'.tools.touched = obs.tools.touched]_vars
    /\ [](/\ \A q \in obs.tools.touched : IsRelativeTo(q, ProjectDir)
          /\ \A q \in DOMAIN disk.project :
                ~IsRelativeTo(q, ProjectDir)
                    => disk.project[q] = NodeAt(InitialProject, q))

\* A write through the link that leads out of the project, and a listing
\* of the project's parent, were refused
C19_Witness ==
    /\ pc = "tools_exec"
    /\ Len(Collected) = 1
    /\ Emitted[1].call \in {WriteFile(PLink, <<"b">>),
                            Search("list_dir", PathArg(FALSE, <<"..">>))}
    /\ NewResult.is_error
    /\ NewResult.content = "outside project directory"
    /\ disk.project[<<"etc", "s">>] = FileNode(<<"b">>)

\* C20: edit ambiguity: edit_file(path, old, new, replace_all = FALSE) on a
\* file in which old occurs more than once returns is_error = TRUE and
\* leaves the file as it is; so does a call whose old string does not occur
\* in the file; only a call with exactly one occurrence, or with
\* replace_all = TRUE, changes the file.
C20_EditAmbiguity ==
    [][(/\ obs'.executed > obs.executed
        /\ NextCall.name = "edit_file" /\ NextCall.ok
        /\ ~LeadsOutside(disk.project, NextCall.path)
        /\ NodeAt(disk.project, Resolve(disk.project,
                                        JoinProject(NextCall.path))).kind = "file")
       => LET phys == Resolve(disk.project, JoinProject(NextCall.path))
              content == disk.project[phys].text
              n == Cardinality(Occurrences(content, NextCall.old_string))
          IN  /\ (~NextCall.replace_all /\ n > 1)
                    => NewResult'.is_error /\ disk'.project = disk.project
              /\ n = 0 => NewResult'.is_error /\ disk'.project = disk.project
              /\ disk'.project # disk.project
                    => n = 1 \/ NextCall.replace_all]_vars

----------------------------------------------------------------------------
(* Claims about resumption (specification SpecLoad) *)

\* C21: a corrupted or missing checkpoint is never fatal: when resume() is
\* called while checkpoint.json is absent or does not hold a valid JSON
\* document, load() returns null and raises nothing, resume() returns
\* False, and the orchestrator's context, token usage, cost total, task
\* description and completed_tasks are what they were.
C21_DamagedCheckpoint ==
    [][(obs'.loads > obs.loads /\ ~ValidJson(disk.checkpoint))
        => /\ obs'.load = "null"
           /\ pc' = "resume_failed"
           /\ context' = context
           /\ token_usage' = token_usage
           /\ cost_tracker'.total_cost = cost_tracker.total_cost
           /\ task_description' = task_description
           /\ completed_tasks' = completed_tasks]_vars

\* C22: resume resets the cost latches: a resume() that loads a checkpoint
\* restores the conversation, the token usage and the cost total, rebuilds
\* the system prompt, and evaluates the restored total against the
\* thresholds with both latches reset, also on an orchestrator whose
\* latches were set before: the warning and the alert are then raised again
\* for a restored total at or above their thresholds.
C22_ResumeResetsLatches ==
    [][(obs'.loads > obs.loads /\ obs'.load = "loaded")
        => LET doc == CheckpointLoad(disk)
               r == set_initial_cost(reset_alerts(cost_tracker), doc.total_cost)
           IN  /\ context'.messages = doc.context.messages
               /\ context'.system_prompt =
                    BuildSystemPrompt(doc.task_description, doc.completed_tasks)
               /\ token_usage' = RestoreTokenUsage(doc)
               /\ cost_tracker'.total_cost = doc.total_cost
               /\ cost_tracker' = r.ct
               /\ obs'.warnings = obs.warnings + (IF r.warned THEN 1 ELSE 0)
               /\ obs'.alerts = obs.alerts + (IF r.alerted THEN 1 ELSE 0)]_vars

\* C23: an exception that leaves the turn procedure (any but a transport
\* error of the main request) is surfaced only after a checkpoint of the
\* current state with reason error has been saved, in a single run as in a
\* continuous one.
C23_ErrorCheckpoint ==
    [][(pc = "raised" /\ pc' = "exit" /\ obs'.exit # "killed")
        => /\ obs'.reason = "error"
           /\ disk'.checkpoint = File(CurrentDoc, TRUE)]_vars

\* C24: cancellation: once a run has been cancelled from outside, its loop
\* starts no new turn; the cancellation saves a checkpoint with reason
\* cancelled, at a moment when no turn of the run is executing; and the run
\* ends not complete.
C24_Cancellation ==
    [][/\ obs.cancelled => iterations' <= iterations
       /\ (obs'.cancelled /\ ~obs.cancelled)
            => /\ obs'.reason = "cancelled"
               /\ disk'.checkpoint = File(CurrentDoc, TRUE)
               /\ pc \notin {"await_summary", "await_response"}
       /\ (obs.cancelled /\ pc = "returned") => obs.result # "complete"]_vars

\* C25: context pressure policy: should_checkpoint holds exactly when the
\* context usage is at or above the checkpoint threshold and
\* should_summarize exactly when it is at or above the summary threshold;
\* an iteration of run() that passes the budget gate with should_checkpoint
\* saves a checkpoint of the state as it is before the iteration's model
\* request, and with should_summarize it appends the summarization request
\* and makes a model call for it before the main request is sent.
C25_ContextPressure ==
    [][/\ (pc = "loop" /\ pc' \in {"await_summary", "await_response"})
            => LET atCheckpoint ==
                       context.estimated_tokens * 100
                           >= config.checkpoint_threshold * config.max_context_tokens
                   atSummary ==
                       context.estimated_tokens * 100
                           >= config.summary_threshold * config.max_context_tokens
               IN  /\ should_checkpoint(context) <=> atCheckpoint
                   /\ should_summarize(context) <=> atSummary
                   /\ atCheckpoint => /\ obs'.reason = "context_threshold"
                                      /\ disk'.checkpoint = File(CurrentDoc, TRUE)
                   /\ ~atCheckpoint => disk' = disk
                   /\ atSummary => /\ pc' = "await_summary"
                                   /\ obs'.lastReq.kind = "summary"
                                   /\ Len(context'.messages) = Len(context.messages) + 1
                                   /\ Last(context'.messages).tag = "summarize"
                   /\ ~atSummary => /\ pc' = "await_response"
                                    /\ obs'.lastReq.kind = "main"
                                    /\ context' = context
       /\ (pc = "await_summary" /\ pc' = "await_response")
            => /\ cost_tracker'.api_calls = cost_tracker.api_calls + 1
               /\ obs'.lastReq = Request("main", cost_tracker'.total_cost, "summary")
               /\ obs'.requests = obs.requests + 1]_vars

\* C25 witness: an iteration has saved its checkpoint at the threshold and
\* waits for the summary it has requested
C25_Witness ==
    /\ pc = "await_summary"
    /\ obs.reason = "context_threshold"
    /\ ValidJson(disk.checkpoint)
    /\ Len(disk.checkpoint.doc.context.messages) + 1 = Len(context.messages)

\* C26: end of a turn without tools: after a response with stop reason
\* end_turn and no tool_use block, run() clears the checkpoint and returns
\* complete if the completion flag is set; if it is unset, exactly one user
\* message, the question whether the task is finished, follows the
\* assistant message and the loop goes on at the budget gate. No tool is
\* executed in either case.
C26_EndTurnWithoutTools ==
    [][(/\ pc = "await_response"
        /\ cost_tracker'.api_calls = cost_tracker.api_calls + 1
        /\ obs'.stop = "end_turn"
        /\ obs'.nextId = obs.nextId)
        => /\ obs'.executed = obs.executed
           /\ completed_tasks' = completed_tasks
           /\ IF is_complete
              THEN /\ disk' = CheckpointClear(disk)
                   /\ pc' = "returned"
                   /\ obs'.result = "complete"
              ELSE /\ Len(context'.messages) = Len(context.messages) + 2
                   /\ SubSeq(context'.messages, 1, Len(context.messages))
                        = context.messages
                   /\ context'.messages[Len(context.messages) + 1].role = "assistant"
                   /\ Last(context'.messages).role = "user"
                   /\ Last(context'.messages).tag = "continue"
                   /\ pc' = "loop"
                   /\ disk' = disk
                   /\ ~is_complete']_vars

\* C26 witness: the loop is back at the budget gate after a turn that ended
\* without tools and was answered by the question
C26_Witness ==
    /\ pc = "loop"
    /\ obs.stop = "end_turn"
    /\ Len(context.messages) >= 3
    /\ Last(context.messages).tag = "continue"
    /\ context.messages[Len(context.messages) - 1].role = "assistant"
    /\ context.messages[Len(context.messages) - 1].ids = <<>>

\* A successful model request returns: the summarization request, or the
\* main request (a failed one is noted in obs.failed)
ResponseArrives ==
    \/ pc = "await_summary" /\ pc' = "await_response"
    \/ /\ pc = "await_response" /\ pc' # "await_response"
       /\ obs'.failed = NoContext

\* C27: every model call is accounted: each successful model request, the
\* summarization request included, adds one to api_calls, adds its input
\* and output tokens to the Token Usage counters and to the Cost Tracker
\* counters, adds its cost to total_cost, and has the thresholds
\* evaluated, all before the response is used.
C27_CallsAccounted ==
    [][ResponseArrives
        => \E usage \in Usages :
            LET cost == calculate_cost(config.model, usage.input_tokens,
                                       usage.output_tokens)
                total == cost_tracker.total_cost + cost
                warn == total >= cost_tracker.config.warn
                alert == total >= cost_tracker.config.alert
            IN  /\ cost_tracker'.api_calls = cost_tracker.api_calls + 1
                /\ token_usage'.input_tokens
                     = token_usage.input_tokens + usage.input_tokens
                /\ token_usage'.output_tokens
                     = token_usage.output_tokens + usage.output_tokens
                /\ cost_tracker'.input_tokens
                     = cost_tracker.input_tokens + usage.input_tokens
                /\ cost_tracker'.output_tokens
                     = cost_tracker.output_tokens + usage.output_tokens
                /\ cost_tracker'.total_cost = total
                /\ cost_tracker'.warning_acknowledged
                     = (cost_tracker.warning_acknowledged \/ warn)
                /\ cost_tracker'.alert_acknowledged
                     = (cost_tracker.alert_acknowledged \/ alert)
                /\ obs'.warnings = obs.warnings
                     + (IF warn /\ ~cost_tracker.warning_acknowledged THEN 1 ELSE 0)
                /\ obs'.alerts = obs.alerts
                     + (IF alert /\ ~cost_tracker.alert_acknowledged THEN 1 ELSE 0)
                /\ (pc' = "await_response")
                     => obs'.lastReq.cost = total]_vars

\* C27 witness: a summarization request and a main request have both been
\* answered and both are in the counters
C27_Witness ==
    /\ pc = "loop"
    /\ obs.lastReq.after = "summary"
    /\ cost_tracker.api_calls = 2
    /\ token_usage.input_tokens = cost_tracker.input_tokens
    /\ token_usage.input_tokens >= 4

\* C28: the history journal is append-only and gains exactly one entry per
\* completed save(): over any sequence of whole save() and clear() calls
\* the number of entries is the number of save() calls, no earlier entry is
\* changed or removed, and the last entry carries the cost and the token
\* total of the checkpoint written last.
C28_HistoryJournal ==
    [][/\ Len(disk'.history) = obs'.saves
       /\ Len(disk'.history) >= Len(disk.history)
       /\ SubSeq(disk'.history, 1, Len(disk.history)) = disk.history
       /\ obs'.saves \in {obs.saves, obs.saves + 1}
       /\ (obs'.saves = obs.saves + 1)
            => /\ ValidJson(disk'.checkpoint)
               /\ Last(disk'.history).action = "checkpoint"
               /\ Last(disk'.history).cost = disk'.checkpoint.doc.total_cost
               /\ Last(disk'.history).tokens
                    = disk'.checkpoint.doc.token_usage.total
               /\ Last(disk'.history).tasks_completed
                    = Len(disk'.checkpoint.doc.completed_tasks)
       /\ (obs'.saves = obs.saves /\ disk'.checkpoint # disk.checkpoint)
            => /\ disk'.checkpoint = NoFile
               /\ disk'.completed = disk.completed + 1]_vars

\* C28 witness: two saves and then a clear: the journal still has both
\* entries
C28_Witness ==
    /\ obs.saves >= 2
    /\ Len(disk.history) = obs.saves
    /\ disk.completed >= 1
    /\ disk.checkpoint = NoFile
    /\ disk.history[1].cost < Last(disk.history).cost

\* The tool_use blocks of the turn whose execution has returned a result
\* without error
Succeeded(name) ==
    \E i \in 1..Len(Collected) :
        /\ obs.tools.kept[i].call.name = name
        /\ ~Collected[i].is_error

\* C29: completion requires a successful task_complete: the completion
\* flag is set, completed_tasks gains an entry and run() returns complete
\* only if a task_complete call was executed and its result has
\* is_error = FALSE; a task_complete call that fails marks nothing.
C29_CompletionNeedsSuccess ==
    /\ []((pc = "returned" /\ obs.result = "complete") => Succeeded("task_complete"))
    /\ [][obs'.executed > obs.executed
            => /\ (is_complete' /\ ~is_complete)
                    => ~Last(Collected').is_error
               /\ (completed_tasks' # completed_tasks)
                    => ~Last(Collected').is_error]_vars

\* C30: a checkpoint on every return that is not complete: when run()
\* returns not complete (at the cost limit, after an unanswered help
\* request, at the iteration bound), save_checkpoint was its last step that
\* changed state, and checkpoint.json holds the messages, the token usage,
\* the total cost, the task description and completed_tasks as they are in
\* memory at the return.
C30_CheckpointOnReturn ==
    /\ []((pc = "returned" /\ obs.result = "not_complete")
            => /\ ValidJson(disk.checkpoint)
               /\ disk.checkpoint.doc.context.messages = context.messages
               /\ disk.checkpoint.doc.token_usage.input_tokens
                    = token_usage.input_tokens
               /\ disk.checkpoint.doc.token_usage.output_tokens
                    = token_usage.output_tokens
               /\ disk.checkpoint.doc.total_cost = cost_tracker.total_cost
               /\ disk.checkpoint.doc.task_description = task_description
               /\ disk.checkpoint.doc.completed_tasks = completed_tasks
               /\ disk.checkpoint = File(CurrentDoc, TRUE)
               /\ obs.reason = obs.exit
               /\ obs.exit \in {"cost_limit", "human_input_needed",
                                 "max_iterations"})
    /\ [][(pc # "returned" /\ pc' = "returned" /\ obs'.result = "not_complete")
            => /\ obs'.saves = obs.saves + 1
               /\ Last(disk'.history) = HistoryEntry(CurrentDoc')]_vars

\* C30 witness: run() has returned after an unanswered help request with a
\* conversation and costs in the checkpoint
C30_Witness ==
    /\ pc = "returned"
    /\ obs.result = "not_complete"
    /\ obs.exit = "human_input_needed"
    /\ cost_tracker.total_cost > 0
    /\ disk.checkpoint = File(CurrentDoc, TRUE)
    /\ Len(context.messages) >= 3

\* Every user message of tool_result blocks directly follows the assistant
\* message whose tool_use blocks carry the same ids.
NoOrphans(messages) ==
    \A i \in 1..Len(messages) :
        messages[i].tag = "tool_result"
            => /\ i > 1
               /\ messages[i - 1].role = "assistant"
               /\ messages[i - 1].ids = messages[i].ids

\* C31: no orphan tool results: in every conversation reachable by run(),
\* also after a summarization, a user message of tool_result blocks is
\* directly preceded by the assistant message with the tool_use blocks of
\* those ids.
C31_NoOrphanToolResults ==
    context # NoContext => NoOrphans(context.messages)

\* C32: request shape: the message list of every model request sent by
\* run() ends with a message of role user, also the request that follows a
\* response without tool_use blocks whose stop reason is not end_turn.
C32_RequestEndsWithUser ==
    [][obs'.requests > obs.requests
        => /\ context'.messages # <<>>
           /\ Last(context'.messages).role = "user"]_vars

\* C33: the pressure thresholds survive resume: the Context Manager that
\* resume() restores has the configured checkpoint_threshold and
\* summary_threshold, so that should_checkpoint and should_summarize answer
\* for a conversation after the restore as they did before the save.
C33_ThresholdsSurviveResume ==
    [][(obs'.loads > obs.loads /\ obs'.load = "loaded")
        => /\ context'.checkpoint_threshold = config.checkpoint_threshold
           /\ context'.summary_threshold = config.summary_threshold
           /\ should_checkpoint(context')
                <=> (context'.estimated_tokens * 100
                        >= config.checkpoint_threshold * config.max_context_tokens)
           /\ should_summarize(context')
                <=> (context'.estimated_tokens * 100
                        >= config.summary_threshold * config.max_context_tokens)]_vars

\* C34: the estimate is always fresh: in every state that initialize,
\* resume, the message appends and the summarization lead to, the stored
\* estimated-token count of the Context Manager is the estimate computed
\* from scratch of its system prompt and its messages.
C34_EstimateFresh ==
    context # NoContext
        => context.estimated_tokens = update_token_estimate(context).estimated_tokens

\* The sum of f over the models in S
RECURSIVE SumOver(_, _)
SumOver(S, f) ==
    IF S = {} THEN 0
    ELSE LET model == CHOOSE x \in S : TRUE
         IN  f[model] + SumOver(S \ {model}, f)

\* C35: cost breakdown consistency: after any sequence of add_usage and
\* set_initial_cost calls total_cost is the sum of cost_by_model, the
\* tracker's input_tokens and output_tokens are the sums of the per-model
\* token counts, and api_calls is the number of add_usage calls.
C35_CostBreakdown ==
    LET models == DOMAIN cost_tracker.cost_by_model
        tokens == cost_tracker.tokens_by_model
    IN  /\ DOMAIN tokens = models
        /\ cost_tracker.total_cost = SumOver(models, cost_tracker.cost_by_model)
        /\ cost_tracker.input_tokens
             = SumOver(models, [x \in models |-> tokens[x].input])
        /\ cost_tracker.output_tokens
             = SumOver(models, [x \in models |-> tokens[x].output])
        /\ cost_tracker.api_calls = Count(obs.ops, "add_usage")

\* C36: several help requests in one turn: a turn that executes more than
\* one request_help, of which at least one gets no human response, ends
\* with the run suspended (checkpoint saved, run() returns not complete),
\* in whatever order the answered and the unanswered requests come.
C36_SeveralHelpRequests ==
    [][(/\ pc = "await_response"
        /\ obs'.nextId > obs.nextId
        /\ obs'.helps > 1
        /\ obs'.help = "unanswered")
        => /\ pc' = "returned"
           /\ obs'.result = "not_complete"
           /\ obs'.exit = "human_input_needed"
           /\ obs'.saves = obs.saves + 1
           /\ disk'.checkpoint = File(CurrentDoc', TRUE)]_vars

\* C37: the suspension flag is per run: run() returns not complete for
\* human input only after a turn of that call in which a request_help went
\* unanswered; a flag left set by an earlier run() of the same
\* orchestrator, followed by initialize() or resume(), does not end a later
\* run() after a turn without request_help.
C37_SuspensionPerRun ==
    [][(/\ pc = "await_response"
        /\ pc' = "returned"
        /\ obs'.exit = "human_input_needed")
        => obs'.help = "unanswered"]_vars

\* C38: the conversation after compression: when the summarization
\* response of a context pressure pass has a non-empty text and the
\* conversation, the summarization request included, has more than 12
\* messages, the conversation afterwards has exactly 13 messages: the
\* summary envelope first, then the last 12 as they were, the last of them
\* the summarization request (role user); the response is not appended as
\* an assistant message.  With no text in the response the conversation is
\* left as it is, the summarization request at its end.
C38_ShapeAfterCompression ==
    [][(pc = "await_summary" /\ pc' = "await_response")
        => LET before == context.messages
               after == context'.messages
               N == Len(before)
           IN  /\ Last(before).tag = "summarize"
               /\ Last(after) = Last(before)
               /\ Last(after).role = "user"
               /\ (obs'.summary # "" /\ N > 12)
                    => /\ Len(after) = 13
                       /\ after[1].tag = "summary"
                       /\ after[1].role = "user"
                       /\ after[1].summary = obs'.summary
                       /\ \A i \in 2..13 : after[i] = before[N - 13 + i]
               /\ (obs'.summary = "" \/ N <= 12) => after = before]_vars

\* C38 witness: a conversation of 13 messages that begins with the summary
\* envelope and ends with the summarization request, the main request sent
C38_Witness ==
    /\ pc = "await_response"
    /\ obs.lastReq.after = "summary"
    /\ obs.summary # ""
    /\ Len(context.messages) = 13
    /\ context.messages[1].tag = "summary"
    /\ Last(context.messages).tag = "summarize"

\* C39: a single active run per project in the dashboard server: under any
\* interleaving of start, stop and delete requests, at most one worker
\* thread executes Orchestrator.run() for the project at any time
C39_SingleActiveRun ==
    Cardinality({r \in Runs : obs.server.worker[r] = "running"}) <= 1

\* C40: consistency of the run registry under start and stop requests:
\* while the task of a run has not finished, active_tasks and
\* active_orchestrators hold the entries of that run, and no stop request
\* is refused while a task is unfinished
C40_RegistryConsistent ==
    obs.server.exists
       => \A r \in Runs :
             obs.server.task[r] \in {"created", "broadcast", "executor"}
                => /\ obs.server.active_tasks = r
                   /\ obs.server.active_orchestrators = r

====
